---- MODULE Spec2Model ----
(***************************************************************************)
(* ElasticRev: elasticity estimation, classification, revenue optimisation *)
(* and scenario simulation (backend/elasticity.py, backend/scenarios.py,   *)
(* backend/models.py, backend/config.py).                                  *)
(*                                                                         *)
(* Numbers.  The program computes with Python floats and numpy float64.    *)
(* A number is modelled as an exact fraction <<n, d>> with d > 0 in lowest *)
(* terms; the float64 specials that numpy division produces are <<1, 0>>   *)
(* (+inf), <<-1, 0>> (-inf) and <<0, 0>> (NaN).  Binary rounding error of  *)
(* the floats is not modelled.                                             *)
(***************************************************************************)
EXTENDS Integers, Sequences, FiniteSets, TLC

VARIABLES products, sales, estimates, scenarios, now, last, pending

vars == <<products, sales, estimates, scenarios, now, last, pending>>

----------------------------------------------------------------------------
(* Float arithmetic *)

Sign(n) == IF n > 0 THEN 1 ELSE IF n < 0 THEN -1 ELSE 0

AbsInt(n) == IF n < 0 THEN -n ELSE n

RECURSIVE GCD(_, _)
GCD(a, b) == IF b = 0 THEN a ELSE GCD(b, a % b)

Norm(n, d) ==
    IF d = 0 THEN <<Sign(n), 0>>
    ELSE LET g == GCD(AbsInt(n), AbsInt(d))
         IN  <<(Sign(d) * n) \div g, AbsInt(d) \div g>>

R(n) == <<n, 1>>

Frac(n, d) == Norm(n, d)

IsNaN(x) == x = <<0, 0>>

IsInf(x) == x[2] = 0 /\ x[1] # 0

IsFinite(x) == x[2] # 0

IsZero(x) == x[2] # 0 /\ x[1] = 0

RNeg(x) == <<-x[1], x[2]>>

RAdd(x, y) ==
    IF x[2] = 0 /\ y[2] = 0
    THEN (IF x = y THEN x ELSE <<0, 0>>)
    ELSE Norm(x[1] * y[2] + y[1] * x[2], x[2] * y[2])

RSub(x, y) == RAdd(x, RNeg(y))

RMul(x, y) == Norm(x[1] * y[1], x[2] * y[2])

\* x / y for y # 0 (Python float division; the caller guards y = 0, which
\* raises ZeroDivisionError) and numpy float64 division, which never raises:
\* x / 0 is +inf, -inf or NaN.
RDiv(x, y) ==
    IF IsZero(y) THEN <<Sign(x[1]), 0>>
    ELSE Norm(x[1] * y[2] * Sign(y[1]), x[2] * AbsInt(y[1]))

\* comparisons; every comparison with NaN is false
RLt(x, y) ==
    /\ ~IsNaN(x)
    /\ ~IsNaN(y)
    /\ IF x[2] = 0 /\ y[2] = 0 THEN x[1] < y[1] ELSE x[1] * y[2] < y[1] * x[2]

RGt(x, y) == RLt(y, x)

RLe(x, y) == ~IsNaN(x) /\ ~IsNaN(y) /\ ~RLt(y, x)

RGe(x, y) == RLe(y, x)

RAbs(x) == <<AbsInt(x[1]), x[2]>>

RMax(x, y) == IF RGt(y, x) THEN y ELSE x

RMin(x, y) == IF RLt(y, x) THEN y ELSE x

\* Python truthiness of an optional float: None and 0.0 are falsy
None == <<"None">>

Truthy(x) == x # None /\ ~IsZero(x)

\* a query that finds no row returns None
NoRow == [none |-> TRUE]

RECURSIVE Pow10(_)
Pow10(k) == IF k = 0 THEN 1 ELSE 10 * Pow10(k - 1)

\* round(x, k): the nearest multiple of 10^-k, ties to even; inf and NaN
\* are returned unchanged
Round(x, k) ==
    IF x[2] = 0 THEN x
    ELSE LET n == x[1] * Pow10(k)
             q == n \div x[2]
             r == n - q * x[2]
             up == \/ 2 * r > x[2]
                   \/ (2 * r = x[2] /\ q % 2 = 1)
         IN  Norm(IF up THEN q + 1 ELSE q, Pow10(k))

----------------------------------------------------------------------------
(* Program constants *)

\* config.py PRICE_CHANGE_LIMITS and the literals of simulate_scenario
MinDiscount == -30

MaxIncrease == 20

\* fewer observations than this are insufficient
MinObservations == 10

\* trailing window of simulate_scenario, in days
HistoryWindowDays == 90

\* avg_quantity fallback of the optimizer and of the curve ("or 100")
DefaultAvgQuantity == 100

\* np.linspace(min_price, max_price, 50)
CurvePoints == 50

\* days of a season of the sales calendar
SeasonDays == 90

\* the day on which the operations run (datetime.now().date())
Today == 1000

----------------------------------------------------------------------------
(* Classification: ElasticityCalculator._classify_elasticity *)

classify_elasticity_dropped_elastic(coefficient) ==
    LET abs_coef == RAbs(coefficient)
    IN  IF RGt(abs_coef, R(2)) THEN "highly_elastic"
        ELSE IF RGe(abs_coef, Frac(9, 10)) /\ RLe(abs_coef, Frac(11, 10))
             THEN "unit_elastic"
        ELSE IF RGt(abs_coef, R(1)) THEN "elastic"
        ELSE "inelastic"

classify_elasticity_signed(coefficient) ==
    IF RGt(coefficient, R(2)) THEN "highly_elastic"
    ELSE IF RGt(coefficient, R(1)) THEN "elastic"
    ELSE IF RGe(coefficient, Frac(9, 10)) /\ RLe(coefficient, Frac(11, 10))
         THEN "unit_elastic"
    ELSE "inelastic"

classify_elasticity(coefficient) ==
    LET abs_coef == RAbs(coefficient)
    IN  IF RGt(abs_coef, R(2)) THEN "highly_elastic"
        ELSE IF RGt(abs_coef, R(1)) THEN "elastic"
        ELSE IF RGe(abs_coef, Frac(9, 10)) /\ RLe(abs_coef, Frac(11, 10))
             THEN "unit_elastic"
        ELSE "inelastic"

----------------------------------------------------------------------------
(* Database rows and queries *)

\* Product.query.get(product_id): the row, or None
GetProduct(prods, product_id) ==
    IF product_id \in DOMAIN prods THEN prods[product_id] ELSE NoRow

\* Sale.query.filter_by(product_id=...).all().  The rows of a product are
\* a bag: a function from the distinct rows to the number of copies of each.
SalesOf(sls, product_id) ==
    IF product_id \in DOMAIN sls THEN sls[product_id] ELSE <<>>

\* len(rows)
RECURSIVE RowCountOver(_, _)
RowCountOver(rows, S) ==
    IF S = {} THEN 0
    ELSE LET r == CHOOSE x \in S : TRUE
         IN  rows[r] + RowCountOver(rows, S \ {r})

RowCount(rows) == RowCountOver(rows, DOMAIN rows)

\* the value of a column in a row: quantity is an integer column, revenue
\* and profit are float columns
Column(row, field) == IF field = "quantity" THEN R(row.quantity) ELSE row[field]

\* the sum of a column
RECURSIVE SumRowsOver(_, _, _)
SumRowsOver(rows, field, S) ==
    IF S = {} THEN R(0)
    ELSE LET r == CHOOSE x \in S : TRUE
         IN  RAdd(RMul(R(rows[r]), Column(r, field)), SumRowsOver(rows, field, S \ {r}))

\* sum(s[field] for s in results)
RECURSIVE SumSeq(_, _, _)
SumSeq(rows, field, i) ==
    IF i > Len(rows) THEN R(0)
    ELSE RAdd(rows[i][field], SumSeq(rows, field, i + 1))

\* pandas Series.mean() of a column (numpy float64)
Mean(rows, field) ==
    RDiv(SumRowsOver(rows, field, DOMAIN rows), R(RowCount(rows)))

----------------------------------------------------------------------------
(* Results: the dict an operation returns, or the exception that escapes it *)

Err(msg) == [status |-> "error", error |-> msg]

Raised(exc) == [status |-> "raised", error |-> exc]

IsOk(res) == res.status = "ok"

----------------------------------------------------------------------------
(* The latest estimate of a product:                                       *)
(* ElasticityResult.query.filter_by(product_id=...)                        *)
(*     .order_by(ElasticityResult.calculation_date.desc()).first()         *)
(* Rows with equal calculation_date come in an order the database picks,   *)
(* so every row with the greatest date is a possible answer.               *)

EstimatesOf_any_product(ests, product_id) == 1..Len(ests)

EstimatesOf(ests, product_id) ==
    {i \in 1..Len(ests) : ests[i].product_id = product_id}

LatestEstimates_oldest(ests, product_id) ==
    {i \in EstimatesOf(ests, product_id) :
        \A j \in EstimatesOf(ests, product_id) :
            ests[i].calculation_date <= ests[j].calculation_date}

LatestEstimates(ests, product_id) ==
    {i \in EstimatesOf(ests, product_id) :
        \A j \in EstimatesOf(ests, product_id) :
            ests[j].calculation_date <= ests[i].calculation_date}

\* the possible answers of the query: rows, or None when there is no row
LatestEstimateChoices(ests, product_id) ==
    IF EstimatesOf(ests, product_id) = {} THEN {NoRow}
    ELSE {ests[i] : i \in LatestEstimates(ests, product_id)}

----------------------------------------------------------------------------
(* ScenarioSimulator *)

\* _calculate_confidence_intervals
calculate_confidence_intervals(elasticity_result, current_qty, current_price, new_price) ==
    LET elasticity == elasticity_result.elasticity_coefficient
        el_lower == IF Truthy(elasticity_result.confidence_interval_lower)
                    THEN elasticity_result.confidence_interval_lower
                    ELSE RMul(elasticity, Frac(8, 10))
        el_upper == IF Truthy(elasticity_result.confidence_interval_upper)
                    THEN elasticity_result.confidence_interval_upper
                    ELSE RMul(elasticity, Frac(12, 10))
        price_change == RDiv(RSub(new_price, current_price), current_price)
        qty_lower == RMul(current_qty, RAdd(R(1), RMul(el_lower, price_change)))
        qty_upper == RMul(current_qty, RAdd(R(1), RMul(el_upper, price_change)))
    IN  [quantity_lower |-> Round(qty_lower, 1),
         quantity_upper |-> Round(qty_upper, 1),
         revenue_lower |-> Round(RMul(new_price, qty_lower), 2),
         revenue_upper |-> Round(RMul(new_price, qty_upper), 2)]

generate_recommendation_no_caution(price_change, revenue_change, profit_change) ==
    IF RGt(revenue_change, R(5)) /\ RGt(profit_change, R(5))
        THEN "Highly Recommended"
    ELSE IF RGt(revenue_change, R(0)) /\ RGt(profit_change, R(0))
        THEN "Recommended"
    ELSE IF RGt(profit_change, R(0)) /\ RLt(revenue_change, R(0))
        THEN "Consider"
    ELSE "Not Recommended"

\* _generate_recommendation: the 'action' of the returned dict
generate_recommendation(price_change, revenue_change, profit_change) ==
    IF RGt(revenue_change, R(5)) /\ RGt(profit_change, R(5))
        THEN "Highly Recommended"
    ELSE IF RGt(revenue_change, R(0)) /\ RGt(profit_change, R(0))
        THEN "Recommended"
    ELSE IF RGt(profit_change, R(0)) /\ RLt(revenue_change, R(0))
        THEN "Consider"
    ELSE IF RGt(profit_change, R(-5)) /\ RLt(revenue_change, R(0))
        THEN "Caution"
    ELSE "Not Recommended"

\* price_change_percent = ((new_price - current_price) / current_price) * 100
PriceChangePercent(current_price, new_price) ==
    RMul(RDiv(RSub(new_price, current_price), current_price), R(100))

PriceChangeOutOfBounds_inclusive(price_change_percent) ==
    IF RLe(price_change_percent, R(MinDiscount))
        THEN "Price decrease exceeds 30% limit"
    ELSE IF RGe(price_change_percent, R(MaxIncrease))
        THEN "Price increase exceeds 20% limit"
    ELSE "in_bounds"

\* the limit check of simulate_scenario: the error message, or "in_bounds"
PriceChangeOutOfBounds(price_change_percent) ==
    IF RLt(price_change_percent, R(MinDiscount))
        THEN "Price decrease exceeds 30% limit"
    ELSE IF RGt(price_change_percent, R(MaxIncrease))
        THEN "Price increase exceeds 20% limit"
    ELSE "in_bounds"

IsRecent(row) == row.date >= Today - HistoryWindowDays

RecentRows(rows) == [r \in {x \in DOMAIN rows : IsRecent(x)} |-> rows[r]]

\* line 76: quantity_change_percent = elasticity * (price_change_percent / 100) * 100
QuantityChangePercent(elasticity, price_change_percent) ==
    RMul(RMul(elasticity, RDiv(price_change_percent, R(100))), R(100))

\* a prediction that drifts with the number of scenarios stored
PredictedQuantity_counts_scenarios(current_avg_quantity, quantity_change_percent) ==
    RMul(current_avg_quantity,
         RAdd(R(1 + Len(scenarios)), RDiv(quantity_change_percent, R(100))))

PredictedQuantity_minus(current_avg_quantity, quantity_change_percent) ==
    RMul(current_avg_quantity, RSub(R(1), RDiv(quantity_change_percent, R(100))))

\* line 78: predicted_quantity = current_avg_quantity * (1 + quantity_change_percent / 100)
PredictedQuantity(current_avg_quantity, quantity_change_percent) ==
    RMul(current_avg_quantity, RAdd(R(1), RDiv(quantity_change_percent, R(100))))

\* the projection of simulate_scenario, lines 74-154, once the checks passed
ProjectionFrom(product_id, product, elasticity_result, new_price, simulation_days, current_avg_quantity, current_avg_revenue, current_avg_profit) ==
    LET elasticity == elasticity_result.elasticity_coefficient
        current_price == product.current_price
        unit_cost == product.unit_cost
        price_change_percent == PriceChangePercent(current_price, new_price)
        quantity_change_percent ==
            QuantityChangePercent(elasticity, price_change_percent)
        predicted_quantity ==
            PredictedQuantity(current_avg_quantity, quantity_change_percent)
        predicted_revenue == RMul(new_price, predicted_quantity)
        predicted_profit == RMul(RSub(new_price, unit_cost), predicted_quantity)
        revenue_change_percent ==
            RMul(RDiv(RSub(predicted_revenue, current_avg_revenue),
                      current_avg_revenue), R(100))
        profit_change_percent ==
            RMul(RDiv(RSub(predicted_profit, current_avg_profit),
                      current_avg_profit), R(100))
        days == R(simulation_days)
        total_current_revenue == RMul(current_avg_revenue, days)
        total_predicted_revenue == RMul(predicted_revenue, days)
        total_current_profit == RMul(current_avg_profit, days)
        total_predicted_profit == RMul(predicted_profit, days)
    IN  [status |-> "ok",
         product_id |-> product_id,
         simulation_days |-> simulation_days,
         current_price |-> current_price,
         new_price |-> new_price,
         price_change_percent |-> Round(price_change_percent, 2),
         current_daily_quantity |-> Round(current_avg_quantity, 1),
         predicted_daily_quantity |-> Round(predicted_quantity, 1),
         quantity_change_percent |-> Round(quantity_change_percent, 2),
         total_current_volume |-> Round(RMul(current_avg_quantity, days), 0),
         total_predicted_volume |-> Round(RMul(predicted_quantity, days), 0),
         current_daily_revenue |-> Round(current_avg_revenue, 2),
         predicted_daily_revenue |-> Round(predicted_revenue, 2),
         revenue_change_percent |-> Round(revenue_change_percent, 2),
         total_current_revenue |-> Round(total_current_revenue, 2),
         total_predicted_revenue |-> Round(total_predicted_revenue, 2),
         total_revenue_change |->
             Round(RSub(total_predicted_revenue, total_current_revenue), 2),
         current_daily_profit |-> Round(current_avg_profit, 2),
         predicted_daily_profit |-> Round(predicted_profit, 2),
         profit_change_percent |-> Round(profit_change_percent, 2),
         total_current_profit |-> Round(total_current_profit, 2),
         total_predicted_profit |-> Round(total_predicted_profit, 2),
         total_profit_change |->
             Round(RSub(total_predicted_profit, total_current_profit), 2),
         coefficient |-> elasticity,
         elasticity_type |-> elasticity_result.elasticity_type,
         confidence_interval |->
             calculate_confidence_intervals(elasticity_result,
                 current_avg_quantity, current_price, new_price),
         recommendation |->
             generate_recommendation(price_change_percent,
                 revenue_change_percent, profit_change_percent)]

\* lines 70-72: the means of the trailing window, each computed once
Projection(product_id, product, elasticity_result, new_price, simulation_days, df) ==
    CHOOSE result \in
        {ProjectionFrom(product_id, product, elasticity_result, new_price,
                        simulation_days, q, r, p) :
            q \in {Mean(df, "quantity")}, r \in {Mean(df, "revenue")},
            p \in {Mean(df, "profit")}} : TRUE

\* simulate_scenario up to its return value; elasticity_result is the answer
\* of the latest-estimate query (a row or None)
simulate_scenario(prods, sls, product_id, elasticity_result, new_price, simulation_days) ==
    LET product == GetProduct(prods, product_id)
        df == RecentRows(SalesOf(sls, product_id))
    IN  IF product = NoRow THEN Err("Product not found")
        ELSE IF elasticity_result = NoRow
            THEN Err("No elasticity data available. Calculate elasticity first.")
        ELSE IF IsZero(product.current_price) THEN Raised("ZeroDivisionError")
        ELSE IF PriceChangeOutOfBounds(
                    PriceChangePercent(product.current_price, new_price)) # "in_bounds"
            THEN Err(PriceChangeOutOfBounds(
                    PriceChangePercent(product.current_price, new_price)))
        ELSE IF RowCount(df) < MinObservations
            THEN Err("Insufficient historical data")
        ELSE IF IsZero(new_price) THEN Raised("ZeroDivisionError")
        ELSE Projection(product_id, product, elasticity_result, new_price,
                        simulation_days, df)

\* _save_scenario: the Scenario row built from the result
ScenarioRow(result) ==
    [product_id |-> result.product_id,
     current_price |-> result.current_price,
     new_price |-> result.new_price,
     price_change_percent |-> result.price_change_percent,
     current_demand |-> result.current_daily_quantity,
     predicted_demand |-> result.predicted_daily_quantity,
     demand_change_percent |-> result.quantity_change_percent,
     current_revenue |-> result.current_daily_revenue,
     predicted_revenue |-> result.predicted_daily_revenue,
     revenue_change_percent |-> result.revenue_change_percent,
     current_profit |-> result.current_daily_profit,
     predicted_profit |-> result.predicted_daily_profit,
     profit_change_percent |-> result.profit_change_percent,
     simulation_days |-> result.simulation_days,
     elasticity_used |-> result.coefficient]

\* the scenarios table after simulate_scenario returned result
SaveScenario(scens, result) ==
    IF IsOk(result) THEN Append(scens, ScenarioRow(result)) ELSE scens

----------------------------------------------------------------------------
(* ElasticityCalculator *)

\* the names elasticity.py imports (lines 1-11) and so may use
ModuleImports ==
    {"numpy", "pandas", "datetime", "timedelta", "func", "db", "Product",
     "Sale", "ElasticityResult", "LinearRegression",
     "GradientBoostingRegressor", "StandardScaler", "cross_val_score",
     "statsmodels.api", "stats"}

\* the handler of calculate_elasticity (lines 109-113) calls
\* traceback.format_exc() before it builds the error dict; with no such name
\* in the module the handler itself raises NameError
ExceptHandler(exc) ==
    IF "traceback" \in ModuleImports THEN Err(exc) ELSE Raised("NameError")

IsPositiveRow_price_only(row) == RGt(row.price, R(0))

\* df[(df['price'] > 0) & (df['quantity'] > 0)]
IsPositiveRow(row) == RGt(row.price, R(0)) /\ row.quantity > 0

PositiveRows(rows) == [r \in {x \in DOMAIN rows : IsPositiveRow(x)} |-> rows[r]]

\* a clamp whose floor is the unit cost itself
ClampRecommended_floor_at_cost(price, unit_cost, current_price) ==
    RMax(unit_cost, RMin(price, RMul(current_price, Frac(15, 10))))

ClampRecommended_no_floor(price, unit_cost, current_price) ==
    RMin(price, RMul(current_price, Frac(15, 10)))

\* line 257: max(unit_cost * 1.1, min(optimal_price, current_price * 1.5))
ClampRecommended(price, unit_cost, current_price) ==
    RMax(RMul(unit_cost, Frac(11, 10)),
         RMin(price, RMul(current_price, Frac(15, 10))))

\* _generate_recommendations; a record with status "raised" stands for the
\* exception the Python float arithmetic raises
generate_recommendations(product, elasticity, df) ==
    LET current_price == product.current_price
        unit_cost == product.unit_cost
        abs_e == RAbs(elasticity)
        avg_quantity == Mean(df, "quantity")
        current_revenue == RMul(current_price, avg_quantity)
        elastic == RGt(abs_e, R(1))
        suggested_price == IF elastic THEN RMul(current_price, Frac(95, 100))
                           ELSE RMul(current_price, Frac(105, 100))
        predicted_quantity ==
            IF elastic
            THEN RMul(avg_quantity, RAdd(R(1), RMul(abs_e, Frac(5, 100))))
            ELSE RMul(avg_quantity, RSub(R(1), RMul(abs_e, Frac(5, 100))))
        predicted_revenue == RMul(suggested_price, predicted_quantity)
        revenue_change ==
            RMul(RDiv(RSub(predicted_revenue, current_revenue), current_revenue),
                 R(100))
        raw_optimal ==
            IF RLt(elasticity, R(-1))
            THEN RDiv(unit_cost, RAdd(R(1), RDiv(R(1), abs_e)))
            ELSE RMul(unit_cost, RAdd(R(1), RDiv(R(1), abs_e)))
        optimal_price == ClampRecommended(raw_optimal, unit_cost, current_price)
    IN  IF IsZero(current_price) THEN Raised("ZeroDivisionError")
        ELSE IF IsZero(elasticity) THEN Raised("ZeroDivisionError")
        ELSE [status |-> "ok",
              current_price |-> current_price,
              current_margin |->
                  Round(RMul(RDiv(RSub(current_price, unit_cost), current_price),
                             R(100)), 2),
              strategy |-> IF elastic THEN "Price Decrease" ELSE "Price Increase",
              suggested_price |-> Round(suggested_price, 2),
              predicted_revenue_change |-> Round(revenue_change, 2),
              predicted_quantity |-> Round(predicted_quantity, 0),
              optimal_price |-> Round(optimal_price, 2)]

\* calculate_elasticity up to its return value.  fit is what the regression
\* (_calculate_linear_elasticity / _calculate_gradient_boosting_elasticity)
\* returns for the filtered rows: the model does not compute the fit, the
\* caller draws it.
calculate_elasticity(prods, sls, product_id, fit) ==
    LET sales_data == SalesOf(sls, product_id)
        df == PositiveRows(sales_data)
        product == GetProduct(prods, product_id)
        recommendations ==
            IF product = NoRow THEN Raised("AttributeError")
            ELSE IF fit.status = "raised" THEN fit
            ELSE generate_recommendations(product, fit.elasticity_coefficient, df)
    IN  IF RowCount(sales_data) < MinObservations
            THEN [status |-> "error",
                  error |-> "Insufficient data for elasticity calculation",
                  sample_size |-> RowCount(sales_data)]
        ELSE IF RowCount(df) < MinObservations
            THEN [status |-> "error",
                  error |-> "Insufficient valid sales data (positive price and quantity required)",
                  sample_size |-> RowCount(df)]
        ELSE IF fit.status = "raised" THEN ExceptHandler(fit.error)
        ELSE IF recommendations.status = "raised"
            THEN ExceptHandler(recommendations.error)
        ELSE [status |-> "ok",
              product_id |-> product_id,
              elasticity_coefficient |-> fit.elasticity_coefficient,
              confidence_interval_lower |-> fit.confidence_interval_lower,
              confidence_interval_upper |-> fit.confidence_interval_upper,
              elasticity_type |-> classify_elasticity(fit.elasticity_coefficient),
              sample_size |-> RowCount(sales_data),
              rows_used |-> RowCount(df),
              recommendations |-> recommendations]

\* a row that stores the suggested price as the optimal price
EstimateRow_suggested_price(result, calculation_date) ==
    [product_id |-> result.product_id,
     elasticity_coefficient |-> result.elasticity_coefficient,
     elasticity_type |-> result.elasticity_type,
     confidence_interval_lower |-> result.confidence_interval_lower,
     confidence_interval_upper |-> result.confidence_interval_upper,
     calculation_date |-> calculation_date,
     optimal_price |-> result.recommendations.suggested_price]

\* _save_results: the ElasticityResult row built from the result
EstimateRow(result, calculation_date) ==
    [product_id |-> result.product_id,
     elasticity_coefficient |-> result.elasticity_coefficient,
     elasticity_type |-> result.elasticity_type,
     confidence_interval_lower |-> result.confidence_interval_lower,
     confidence_interval_upper |-> result.confidence_interval_upper,
     calculation_date |-> calculation_date,
     optimal_price |-> result.recommendations.optimal_price]

----------------------------------------------------------------------------
(* Power law, revenue optimizer and curve *)

\* base ** exponent.  The float result is computed exactly where a fraction
\* can hold it (base 1, exponent 0, 1 or -1, the float64 specials); any other
\* power is irrational in general, and the model then allows each of a few
\* sample values of the interval in which the true power lies.
PowChoices(base, exponent) ==
    IF IsZero(exponent) THEN {R(1)}
    ELSE IF IsNaN(base) THEN {<<0, 0>>}
    ELSE IF base = R(1) THEN {R(1)}
    ELSE IF IsInf(base) THEN {IF RLt(exponent, R(0)) THEN R(0) ELSE <<1, 0>>}
    ELSE IF IsZero(base) THEN {IF RLt(exponent, R(0)) THEN <<1, 0>> ELSE R(0)}
    ELSE IF exponent = R(1) THEN {base}
    ELSE IF exponent = R(-1) THEN {RDiv(R(1), base)}
    ELSE IF RGt(base, R(1)) = RGt(exponent, R(0))
         THEN {Frac(5, 4), R(2)}
         ELSE {Frac(1, 4), Frac(3, 4)}

\* db.session.query(func.avg(Sale.quantity)).filter_by(...).scalar() or 100
AvgQuantityOr100(sls, product_id) ==
    LET rows == SalesOf(sls, product_id)
    IN  IF RowCount(rows) = 0 THEN R(DefaultAvgQuantity)
        ELSE IF IsZero(Mean(rows, "quantity")) THEN R(DefaultAvgQuantity)
        ELSE Mean(rows, "quantity")

\* an optimum that cuts the price of an elastic product
UnconstrainedOptimum_price_cut(current_price, elasticity) ==
    IF RGe(elasticity, R(-1)) THEN RMul(current_price, Frac(12, 10))
    ELSE RMul(current_price, Frac(8, 10))

\* lines 455-460: the unconstrained optimum
UnconstrainedOptimum(current_price, elasticity) ==
    IF RGe(elasticity, R(-1)) THEN RMul(current_price, Frac(12, 10))
    ELSE RMul(current_price, RDiv(elasticity, RAdd(elasticity, R(1))))

ClampOptimal_no_floor(price, unit_cost, current_price) ==
    RMin(price, RMul(current_price, R(2)))

\* line 468: max(unit_cost * 1.1, min(optimal_price, current_price * 2))
ClampOptimal(price, unit_cost, current_price) ==
    RMax(RMul(unit_cost, Frac(11, 10)), RMin(price, RMul(current_price, R(2))))

\* lines 470-492 of calculate_revenue_optimization: the predicted outcomes
\* and the returned dict
OptimizationFrom(product_id, product, elasticity_result, cost_constraint, power, avg_quantity, optimal_price) ==
    LET elasticity == elasticity_result.elasticity_coefficient
        current_price == product.current_price
        unit_cost == product.unit_cost
        predicted_quantity == RMul(avg_quantity, power)
        predicted_revenue == RMul(optimal_price, predicted_quantity)
        current_revenue == RMul(current_price, avg_quantity)
        predicted_profit == RMul(RSub(optimal_price, unit_cost), predicted_quantity)
        current_profit == RMul(RSub(current_price, unit_cost), avg_quantity)
    IN  IF IsZero(current_price) THEN Raised("ZeroDivisionError")
        ELSE IF IsZero(optimal_price) /\ RLt(elasticity, R(0))
            THEN Raised("ZeroDivisionError")
        ELSE IF IsZero(current_revenue) \/ IsZero(current_profit)
            THEN Raised("ZeroDivisionError")
        ELSE [status |-> "ok",
              product_id |-> product_id,
              current_price |-> current_price,
              optimal_price |-> Round(optimal_price, 2),
              price_change_percent |->
                  Round(RMul(RDiv(RSub(optimal_price, current_price),
                                  current_price), R(100)), 2),
              current_quantity |-> Round(avg_quantity, 0),
              predicted_quantity |-> Round(predicted_quantity, 0),
              quantity_change_percent |->
                  Round(RMul(RDiv(RSub(predicted_quantity, avg_quantity),
                                  avg_quantity), R(100)), 2),
              current_revenue |-> Round(current_revenue, 2),
              predicted_revenue |-> Round(predicted_revenue, 2),
              revenue_change_percent |->
                  Round(RMul(RDiv(RSub(predicted_revenue, current_revenue),
                                  current_revenue), R(100)), 2),
              current_profit |-> Round(current_profit, 2),
              predicted_profit |-> Round(predicted_profit, 2),
              profit_change_percent |->
                  Round(RMul(RDiv(RSub(predicted_profit, current_profit),
                                  current_profit), R(100)), 2),
              elasticity_used |-> elasticity]

\* calculate_revenue_optimization up to its return value; elasticity_result
\* is the answer of the latest-estimate query, cost_constraint a margin or
\* None, power the value of (optimal_price / current_price) ** elasticity.
\* Lines 455-468: the optimal price before it is rounded
OptimalPrice(product, elasticity_result, cost_constraint) ==
    LET unconstrained == UnconstrainedOptimum(product.current_price,
                             elasticity_result.elasticity_coefficient)
        constrained ==
            IF Truthy(cost_constraint)
            THEN RMax(unconstrained,
                      RDiv(product.unit_cost, RSub(R(1), cost_constraint)))
            ELSE unconstrained
    IN  ClampOptimal(constrained, product.unit_cost, product.current_price)

calculate_revenue_optimization(prods, sls, product_id, elasticity_result, cost_constraint, power) ==
    LET product == GetProduct(prods, product_id)
    IN  IF product = NoRow THEN Err("Product not found")
        ELSE IF elasticity_result = NoRow THEN Err("Calculate elasticity first")
        ELSE IF Truthy(cost_constraint) /\ cost_constraint = R(1)
            THEN Raised("ZeroDivisionError")
        ELSE CHOOSE result \in
            {OptimizationFrom(product_id, product, elasticity_result,
                              cost_constraint, power, q, o) :
                q \in {AvgQuantityOr100(sls, product_id)},
                o \in {OptimalPrice(product, elasticity_result, cost_constraint)}} :
            TRUE

\* the ratio whose power the optimizer takes (line 471)
OptimizerRatio(prods, product_id, elasticity_result, cost_constraint) ==
    LET product == GetProduct(prods, product_id)
    IN  IF product = NoRow \/ elasticity_result = NoRow THEN R(1)
        ELSE IF Truthy(cost_constraint) /\ cost_constraint = R(1) THEN R(1)
        ELSE RDiv(OptimalPrice(product, elasticity_result, cost_constraint),
                  product.current_price)

\* np.linspace(min_price, max_price, 50)[i], i in 0..49
Linspace(min_price, max_price, i) ==
    RAdd(min_price,
         RMul(R(i), RDiv(RSub(max_price, min_price), R(CurvePoints - 1))))

\* the price range of the curve: the caller's, or 0.7 .. 1.3 of current_price
CurveRange(current_price, price_range) ==
    IF price_range # None THEN price_range
    ELSE <<RMul(current_price, Frac(7, 10)), RMul(current_price, Frac(13, 10))>>

CurvePrice(prods, product_id, price_range, i) ==
    LET product == GetProduct(prods, product_id)
        range == CurveRange(product.current_price, price_range)
    IN  Linspace(range[1], range[2], i)

\* line 338: revenue = price * quantity
CurveRevenue(price, quantity) == RMul(price, quantity)

CurveProfit_unit(price, unit_cost, quantity) ==
    RSub(RMul(price, quantity), unit_cost)

\* line 339: profit = (price - product.unit_cost) * quantity
CurveProfit(price, unit_cost, quantity) ==
    RMul(RSub(price, unit_cost), quantity)

\* line 337: quantity = avg_quantity * ((price / current_price) ** elasticity)
CurveQuantity(avg_quantity, price, current_price, power) ==
    RMul(avg_quantity, power)

\* get_elasticity_curve up to its return value, with the lists of the result
\* seen at index i: power is the value of (prices[i] / current_price) ** elasticity
CurvePoint(product_id, product, elasticity_result, i, power, avg_quantity, price) ==
    [status |-> "ok",
     product_id |-> product_id,
     index |-> i,
     price |-> price,
     quantity |-> CurveQuantity(avg_quantity, price, product.current_price, power),
     revenue |->
         CurveRevenue(price,
             CurveQuantity(avg_quantity, price, product.current_price, power)),
     profit |->
         CurveProfit(price, product.unit_cost,
             CurveQuantity(avg_quantity, price, product.current_price, power)),
     current_price |-> product.current_price,
     current_quantity |-> avg_quantity,
     elasticity |-> elasticity_result.elasticity_coefficient,
     optimal_price |->
         IF Truthy(elasticity_result.optimal_price)
         THEN elasticity_result.optimal_price ELSE product.current_price]

get_elasticity_curve(prods, sls, product_id, elasticity_result, price_range, i, power) ==
    LET product == GetProduct(prods, product_id)
    IN  IF product = NoRow THEN Err("Product not found")
        ELSE IF elasticity_result = NoRow THEN Err("No elasticity data available")
        ELSE CHOOSE result \in
            {CurvePoint(product_id, product, elasticity_result, i, power, q, pr) :
                q \in {AvgQuantityOr100(sls, product_id)},
                pr \in {CurvePrice(prods, product_id, price_range, i)}} : TRUE

----------------------------------------------------------------------------
(* Bounds of the model *)

\* rows the elasticity_results table may hold
MaxEstimates == 2

\* rows the scenarios table may hold
MaxScenarios == 3

----------------------------------------------------------------------------
(* Databases the operations start from: products and sales are loaded      *)
(* from CSV by database.py, the other tables are empty                     *)

Prod(unit_cost, current_price) ==
    [unit_cost |-> unit_cost, current_price |-> current_price]

\* generate_data.get_season: the season of a date, with seasons of ninety
\* days; Today is a winter day
get_season(date) ==
    CASE (date \div SeasonDays) % 4 = 3 -> "Winter"
      [] (date \div SeasonDays) % 4 = 0 -> "Spring"
      [] (date \div SeasonDays) % 4 = 1 -> "Summer"
      [] OTHER -> "Fall"

SaleRow(date, quantity, price, revenue, profit) ==
    [date |-> date, quantity |-> quantity, price |-> price,
     revenue |-> revenue, profit |-> profit, season |-> get_season(date)]

\* n copies of a row
Rows(n, row) == (row :> n)

\* product 2 of every world: price 50, cost 30, twenty units a day
Prod2 == Prod(R(30), R(50))

Sales2 == Rows(10, SaleRow(Today - 5, 20, R(50), R(1000), R(400)))

\* the product of the worked example: price 100, cost 60, 50 units a day;
\* sales rows of a product id 3 that has no product row
WorldStd ==
    [products |-> (1 :> Prod(R(60), R(100))) @@ (2 :> Prod2),
     sales |-> (1 :> Rows(10, SaleRow(Today - 5, 50, R(100), R(5000), R(2000))))
               @@ (2 :> Sales2)
               @@ (3 :> Rows(10, SaleRow(Today - 5, 5, R(10), R(50), R(10))))]

\* sold at cost: every row has profit 0
WorldAtCost ==
    [products |-> (1 :> Prod(R(100), R(100))) @@ (2 :> Prod2),
     sales |-> (1 :> Rows(10, SaleRow(Today - 5, 50, R(100), R(5000), R(0))))
               @@ (2 :> Sales2)]

\* sold out: ten old rows with sales, then ten recent rows with quantity 0
WorldSoldOut ==
    [products |-> (1 :> Prod(R(60), R(100))) @@ (2 :> Prod2),
     sales |-> (1 :> (Rows(10, SaleRow(Today - 200, 50, R(100), R(5000), R(2000)))
                      @@ Rows(10, SaleRow(Today - 5, 0, R(100), R(0), R(0)))))
               @@ (2 :> Sales2)]

\* thin margin: cost 10.04, price 10.50
WorldThinMargin ==
    [products |-> (1 :> Prod(Frac(1004, 100), Frac(1050, 100))) @@ (2 :> Prod2),
     sales |-> (1 :> Rows(10, SaleRow(Today - 5, 50, Frac(1050, 100), R(525), R(23))))
               @@ (2 :> Sales2)]

\* priced far below cost: cost 100, price 40
WorldBelowCost ==
    [products |-> (1 :> Prod(R(100), R(40))) @@ (2 :> Prod2),
     sales |-> (1 :> Rows(10, SaleRow(Today - 5, 50, R(40), R(2000), R(-3000))))
               @@ (2 :> Sales2)]

\* nine rows only for product 1, none for product 2
WorldFewRows ==
    [products |-> (1 :> Prod(R(60), R(100))) @@ (2 :> Prod2),
     sales |-> (1 :> Rows(9, SaleRow(Today - 5, 50, R(100), R(5000), R(2000))))]

\* twelve rows of which nine are usable: two sold nothing, one has price 0
WorldMixedRows ==
    [products |-> (1 :> Prod(R(60), R(100))) @@ (2 :> Prod2),
     sales |-> (1 :> (Rows(9, SaleRow(Today - 5, 50, R(100), R(5000), R(2000)))
                      @@ Rows(2, SaleRow(Today - 4, 0, R(100), R(0), R(0)))
                      @@ Rows(1, SaleRow(Today - 3, 5, R(0), R(0), R(-300)))))
               @@ (2 :> Sales2)]

\* two seasons: ten recent winter rows of 50 units, ten fall rows of 30
WorldSeasons ==
    [products |-> (1 :> Prod(R(60), R(100))) @@ (2 :> Prod2),
     sales |-> (1 :> (Rows(10, SaleRow(Today - 5, 50, R(100), R(5000), R(2000)))
                      @@ Rows(10, SaleRow(Today - 100, 30, R(100), R(3000), R(1200)))))
               @@ (2 :> Sales2)
               @@ (3 :> Rows(10, SaleRow(Today - 5, 5, R(10), R(50), R(10))))]

RECURSIVE Pow2(_)
Pow2(k) == IF k = 0 THEN 1 ELSE 2 * Pow2(k - 1)

\* a sale at price 4^k of a product that follows quantity = A * price^e,
\* with A = 2^log_a; the product costs 1
LawSale(log_a, e, k) ==
    LET price == Pow2(2 * k)
        quantity == Pow2(log_a + (2 * k * e[1]) \div e[2])
    IN  SaleRow(Today - k, quantity, R(price), R(price * quantity),
                R((price - 1) * quantity))

\* the laws: <<log_a, e>>
Laws ==
    {<<12, R(-2)>>, <<9, Frac(-3, 2)>>, <<6, R(-1)>>, <<4, Frac(-1, 2)>>,
     <<1, Frac(1, 2)>>}

\* the numbers of rows at the prices 4, 16 and 64
Designs == {<<100, 100, 0>>, <<150, 49, 1>>, <<67, 67, 67>>, <<0, 200, 0>>}

\* a history of at least 200 rows that follows a law
LawRows(law, design) ==
    [r \in {LawSale(law[1], law[2], k) : k \in {j \in 1..3 : design[j] > 0}} |->
        design[CHOOSE k \in 1..3 : r = LawSale(law[1], law[2], k)]]

WorldLaw(law, design) ==
    [products |-> (1 :> Prod(R(1), R(16))) @@ (2 :> Prod2),
     sales |-> (1 :> LawRows(law, design)) @@ (2 :> Sales2)]

\* two seasons whose means are in no round ratio: winter rows of 50
\* units, fall rows of 20
WorldSeasonsOdd ==
    [products |-> (1 :> Prod(R(60), R(100))) @@ (2 :> Prod2),
     sales |-> (1 :> (Rows(10, SaleRow(Today - 5, 50, R(100), R(5000), R(2000)))
                      @@ Rows(10, SaleRow(Today - 100, 20, R(100), R(2000), R(800)))))
               @@ (2 :> Sales2)]

\* a product of two cents that costs half a cent
WorldCents ==
    [products |-> (1 :> Prod(Frac(5, 1000), Frac(2, 100))) @@ (2 :> Prod2),
     sales |-> (1 :> Rows(10, SaleRow(Today - 5, 50, Frac(2, 100), R(1), Frac(3, 4))))
               @@ (2 :> Sales2)]

\* the unit cost was cut from 70 to 60 after the recorded sales: each row
\* carries the profit booked at the old cost
WorldCostCut ==
    [products |-> (1 :> Prod(R(60), R(100))) @@ (2 :> Prod2),
     sales |-> (1 :> Rows(10, SaleRow(Today - 5, 50, R(100), R(5000), R(1500))))
               @@ (2 :> Sales2)]

Worlds ==
    {WorldStd, WorldAtCost, WorldSoldOut, WorldThinMargin, WorldBelowCost,
     WorldFewRows}

\* product ids the callers pass: 1 and 2 have a row, 3 has none
ProductIds == {1, 2, 3}

Fit(coefficient, lower, upper) ==
    [status |-> "ok",
     elasticity_coefficient |-> coefficient,
     confidence_interval_lower |-> lower,
     confidence_interval_upper |-> upper]

\* np.log of a positive float, in units of ln 2: exact on the powers of two,
\* which are the prices and quantities the fitted histories hold
RECURSIVE Log2Int(_)
Log2Int(n) == IF n <= 1 THEN 0 ELSE 1 + Log2Int(n \div 2)

Log(x) == R(Log2Int(x[1]) - Log2Int(x[2]))

\* df['log_price'], df['log_quantity']
LogColumn(row, field) == Log(Column(row, field))

\* the sum of log a * log b over the rows
RECURSIVE SumLogs(_, _, _, _)
SumLogs(rows, a, b, S) ==
    IF S = {} THEN R(0)
    ELSE LET r == CHOOSE x \in S : TRUE
             term == IF b = "one" THEN LogColumn(r, a)
                     ELSE RMul(LogColumn(r, a), LogColumn(r, b))
         IN  RAdd(RMul(R(rows[r]), term), SumLogs(rows, a, b, S \ {r}))

\* the least-squares slope fitted without an intercept
OLSSlope_through_origin(n, sx, sy, sxx, sxy) == RDiv(sxy, sxx)

\* sm.OLS(y, X_with_const).fit().params[1]: the least-squares slope of y on
\* x with an intercept, from the sums of the n observations
OLSSlope(n, sx, sy, sxx, sxy) ==
    RDiv(RSub(RMul(n, sxy), RMul(sx, sy)), RSub(RMul(n, sxx), RMul(sx, sx)))

\* _calculate_linear_elasticity(X, y, df).  sm.add_constant adds no column
\* when log_price is already a non-zero constant, and params[1] then raises
\* IndexError; for a log_price that is 0 throughout the slope is 0.  margin
\* is the half-width of the confidence interval, which the model does not
\* compute.
calculate_linear_elasticity(df, margin) ==
    LET n == R(RowCount(df))
        sx == SumLogs(df, "price", "one", DOMAIN df)
        sy == SumLogs(df, "quantity", "one", DOMAIN df)
        sxx == SumLogs(df, "price", "price", DOMAIN df)
        sxy == SumLogs(df, "price", "quantity", DOMAIN df)
        elasticity == OLSSlope(n, sx, sy, sxx, sxy)
    IN  IF IsZero(RSub(RMul(n, sxx), RMul(sx, sx)))
        THEN (IF IsZero(sxx) THEN Fit(R(0), R(0), R(0))
              ELSE Raised("IndexError"))
        ELSE Fit(elasticity, RSub(elasticity, margin), RAdd(elasticity, margin))

\* no simulate_competitive_response call is between its two phases
Idle == [call |-> "none"]

InitWith(world) ==
    /\ products = world.products
    /\ sales = world.sales
    /\ estimates = <<>>
    /\ scenarios = <<>>
    /\ now = 0
    /\ last = [op |-> "init", status |-> "none"]
    /\ pending = Idle

----------------------------------------------------------------------------
(* Operations *)

Tag(op, args, result) == [op |-> op, args |-> args] @@ result

\* ElasticityCalculator.calculate_elasticity(product_id); the row is stamped
\* with the clock, which has moved on or not since the last row
CalculateElasticity(product_id, fit) ==
    \E result \in {calculate_elasticity(products, sales, product_id, fit)} :
        /\ Len(estimates) < MaxEstimates
        /\ \E t \in {now, now + 1} :
              /\ now' = (IF IsOk(result) THEN t ELSE now)
              /\ estimates' = (IF IsOk(result)
                               THEN Append(estimates, EstimateRow(result, t))
                               ELSE estimates)
        /\ last' = Tag("calculate_elasticity", <<product_id>>, result)
        /\ UNCHANGED <<products, sales, scenarios, pending>>

\* calculate_elasticity(product_id) with the linear model
\* (model_type='linear_regression') fitted to the positive rows
CalculateLinear(product_id, margin) ==
    CalculateElasticity(product_id,
        calculate_linear_elasticity(PositiveRows(SalesOf(sales, product_id)),
                                    margin))

\* a simulate_scenario that also drops the estimate it has just used
SimulateScenario_drops_estimate(product_id, new_price, simulation_days) ==
    \E er \in LatestEstimateChoices(estimates, product_id) :
        \E result \in {simulate_scenario(products, sales, product_id, er,
                                        new_price, simulation_days)} :
            /\ Len(scenarios) < MaxScenarios
            /\ scenarios' = SaveScenario(scenarios, result)
            /\ estimates' = SelectSeq(estimates, LAMBDA row : row # er)
            /\ last' = Tag("simulate_scenario",
                           <<product_id, new_price, simulation_days>>, result)
            /\ UNCHANGED <<products, sales, now, pending>>

\* ScenarioSimulator.simulate_scenario(product_id, new_price, simulation_days)
SimulateScenario(product_id, new_price, simulation_days) ==
    \E er \in LatestEstimateChoices(estimates, product_id) :
        \E result \in {simulate_scenario(products, sales, product_id, er,
                                        new_price, simulation_days)} :
            /\ Len(scenarios) < MaxScenarios
            /\ scenarios' = SaveScenario(scenarios, result)
            /\ last' = Tag("simulate_scenario",
                           <<product_id, new_price, simulation_days>>, result)
            /\ UNCHANGED <<products, sales, estimates, now, pending>>

\* calculate_revenue_optimization(product_id, cost_constraint)
OptimizeRevenue(product_id, cost_constraint) ==
    \E er \in LatestEstimateChoices(estimates, product_id) :
    \E power \in PowChoices(
                    OptimizerRatio(products, product_id, er, cost_constraint),
                    IF er = NoRow THEN R(0) ELSE er.elasticity_coefficient) :
    \E result \in {calculate_revenue_optimization(products, sales, product_id,
                        er, cost_constraint, power)} :
        /\ last' = Tag("calculate_revenue_optimization",
                       <<product_id, cost_constraint>>, result)
        /\ UNCHANGED <<products, sales, estimates, scenarios, now, pending>>

\* ElasticityCalculator.get_elasticity_curve(product_id, price_range), the
\* result seen at index i of its lists
ElasticityCurve(product_id, price_range, i) ==
    \E er \in LatestEstimateChoices(estimates, product_id) :
    \E power \in (IF GetProduct(products, product_id) = NoRow \/ er = NoRow
                  THEN {R(1)}
                  ELSE PowChoices(
                          RDiv(CurvePrice(products, product_id, price_range, i),
                               products[product_id].current_price),
                          er.elasticity_coefficient)) :
    \E result \in {get_elasticity_curve(products, sales, product_id, er,
                                         price_range, i, power)} :
        /\ last' = Tag("get_elasticity_curve", <<product_id, price_range, i>>,
                       result)
        /\ UNCHANGED <<products, sales, estimates, scenarios, now, pending>>


RECURSIVE Flatten(_, _)
Flatten(seqs, i) ==
    IF i > Len(seqs) THEN <<>> ELSE seqs[i] \o Flatten(seqs, i + 1)

\* the (product_id, price_change) pairs in the order the loops of
\* bulk_simulate reach simulate_scenario; a product id with no row is skipped
BulkCombos(prods, product_ids, price_changes) ==
    Flatten([k \in 1..Len(product_ids) |->
                IF GetProduct(prods, product_ids[k]) = NoRow THEN <<>>
                ELSE [j \in 1..Len(price_changes) |->
                         <<product_ids[k], price_changes[j]>>]], 1)

\* new_price = product.current_price * (1 + price_change / 100)
BulkPrice(product, price_change) ==
    RMul(product.current_price, RAdd(R(1), RDiv(R(price_change), R(100))))

\* the result of every simulate_scenario call of the loops; pick[p] is the
\* answer of the latest-estimate query for product p
BulkCalls(prods, sls, combos, pick) ==
    [k \in 1..Len(combos) |->
        simulate_scenario(prods, sls, combos[k][1], pick[combos[k][1]],
                          BulkPrice(prods[combos[k][1]], combos[k][2]), 30)]

\* line 414: if 'error' not in scenario
BulkKeep(scenario) == IsOk(scenario)

\* bulk_simulate up to its return value, given the results of its calls
bulk_simulate(calls) ==
    LET results == SelectSeq(calls, BulkKeep)
    IN  IF \E k \in 1..Len(calls) : calls[k].status = "raised"
        THEN Raised("ZeroDivisionError")
        ELSE [status |-> "ok",
              scenarios |-> results,
              total_scenarios |-> Len(results),
              total_revenue_impact |->
                  Round(SumSeq(results, "total_revenue_change", 1), 2),
              total_profit_impact |->
                  Round(SumSeq(results, "total_profit_change", 1), 2),
              average_revenue_change_percent |->
                  IF Len(results) > 0
                  THEN Round(RDiv(SumSeq(results, "revenue_change_percent", 1),
                                  R(Len(results))), 2)
                  ELSE R(0)]

\* the calls made before the first one that raises
RECURSIVE CallsMade(_, _)
CallsMade(calls, i) ==
    IF i > Len(calls) THEN <<>>
    ELSE IF calls[i].status = "raised" THEN <<>>
    ELSE <<calls[i]>> \o CallsMade(calls, i + 1)

RECURSIVE SaveScenarios(_, _, _)
SaveScenarios(scens, calls, i) ==
    IF i > Len(calls) THEN scens
    ELSE SaveScenarios(SaveScenario(scens, calls[i]), calls, i + 1)

\* ScenarioSimulator.bulk_simulate(product_ids, price_changes)
BulkSimulate(product_ids, price_changes) ==
    \E pick \in {f \in [ProductIds -> UNION {LatestEstimateChoices(estimates, q) :
                                                q \in ProductIds}] :
                     \A q \in ProductIds :
                         f[q] \in LatestEstimateChoices(estimates, q)} :
        \E calls \in {BulkCalls(products, sales,
                           BulkCombos(products, product_ids, price_changes), pick)} :
        \E saved \in {SaveScenarios(scenarios, CallsMade(calls, 1), 1)} :
            /\ Len(saved) <= MaxScenarios
            /\ scenarios' = saved
            /\ \E result \in {bulk_simulate(calls)} :
                  last' = Tag("bulk_simulate", <<product_ids, price_changes>>,
                              result)
            /\ UNCHANGED <<products, sales, estimates, now, pending>>

\* Scenario._calculate_recommendation: the action, or "None"
calculate_recommendation(row) ==
    LET profit == row.profit_change_percent
        revenue == row.revenue_change_percent
        demand == row.demand_change_percent
        score == RAdd(RAdd(RMul(profit, Frac(5, 10)), RMul(revenue, Frac(3, 10))),
                      RMul(demand, Frac(2, 10)))
    IN  IF ~(Truthy(profit) /\ Truthy(revenue) /\ Truthy(demand)) THEN "None"
        ELSE IF RGt(score, R(5)) /\ RGt(profit, R(0)) /\ RGt(revenue, R(0))
            THEN "Highly Recommended"
        ELSE IF RGt(score, R(2)) /\ RGt(profit, R(0)) THEN "Recommended"
        ELSE IF RGt(score, R(0)) THEN "Consider"
        ELSE "Not Recommended"

\* Scenario.to_dict of the row with the given id
to_dict(id, row) ==
    [id |-> id,
     product_id |-> row.product_id,
     current_price |-> row.current_price,
     new_price |-> row.new_price,
     price_change_percent |-> row.price_change_percent,
     current_demand |-> row.current_demand,
     predicted_demand |-> row.predicted_demand,
     demand_change_percent |-> row.demand_change_percent,
     current_revenue |-> row.current_revenue,
     predicted_revenue |-> row.predicted_revenue,
     revenue_change_percent |-> row.revenue_change_percent,
     total_revenue_change |->
         IF Truthy(row.predicted_revenue) /\ Truthy(row.current_revenue)
         THEN RSub(row.predicted_revenue, row.current_revenue) ELSE R(0),
     current_profit |-> row.current_profit,
     predicted_profit |-> row.predicted_profit,
     profit_change_percent |-> row.profit_change_percent,
     total_profit_change |->
         IF Truthy(row.predicted_profit) /\ Truthy(row.current_profit)
         THEN RSub(row.predicted_profit, row.current_profit) ELSE R(0),
     recommendation |-> calculate_recommendation(row),
     simulation_days |-> row.simulation_days,
     elasticity_used |-> row.elasticity_used]

\* Scenario.query.filter(Scenario.id.in_(scenario_ids)).all(): the ids of the
\* rows found, in the order of the table
RECURSIVE ScenariosFound(_, _, _)
ScenariosFound(scens, scenario_ids, i) ==
    IF i > Len(scens) THEN <<>>
    ELSE (IF \E k \in 1..Len(scenario_ids) : scenario_ids[k] = i
          THEN <<i>> ELSE <<>>)
         \o ScenariosFound(scens, scenario_ids, i + 1)

\* the loop of compare_scenarios for one of its three maxima: the id of the
\* pick after the rows found[i..], 0 for None
RECURSIVE BestBy(_, _, _, _, _, _)
BestBy(scens, found, field, i, max, best) ==
    IF i > Len(found) THEN best
    ELSE IF RGt(scens[found[i]][field], max)
        THEN BestBy(scens, found, field, i + 1, scens[found[i]][field], found[i])
    ELSE BestBy(scens, found, field, i + 1, max, best)

\* compare_scenarios up to its return value.  A NaN percent change is stored
\* as NULL by the database, and comparing None with a float raises TypeError.
compare_scenarios(scens, scenario_ids) ==
    LET found == ScenariosFound(scens, scenario_ids, 1)
        Pick(field) ==
            LET best == BestBy(scens, found, field, 1, <<-1, 0>>, 0)
            IN  IF best = 0 THEN NoRow ELSE to_dict(best, scens[best])
    IN  IF found = <<>> THEN Err("No scenarios found")
        ELSE IF \E k \in 1..Len(found) :
                    \/ IsNaN(scens[found[k]].revenue_change_percent)
                    \/ IsNaN(scens[found[k]].profit_change_percent)
                    \/ IsNaN(scens[found[k]].demand_change_percent)
            THEN Raised("TypeError")
        ELSE [status |-> "ok",
              scenarios |-> [k \in 1..Len(found) |->
                                to_dict(found[k], scens[found[k]])],
              best_for_revenue |-> Pick("revenue_change_percent"),
              best_for_profit |-> Pick("profit_change_percent"),
              best_for_volume |-> Pick("demand_change_percent")]

\* ScenarioSimulator.compare_scenarios(scenario_ids)
CompareScenarios(scenario_ids) ==
    \E result \in {compare_scenarios(scenarios, scenario_ids)} :
        /\ last' = Tag("compare_scenarios", <<scenario_ids>>, result)
        /\ UNCHANGED <<products, sales, estimates, scenarios, now, pending>>

\* current_price * (1 + change / 100)
PriceAfterChange(current_price, change) ==
    RMul(current_price, RAdd(R(1), RDiv(change, R(100))))

\* the matched share taken as the effective change
EffectivePriceChange_matched_share(our_price_change, match_percent) ==
    RMul(R(our_price_change), RDiv(R(match_percent), R(100)))

\* line 315: effective_price_change = our_price_change * (1 - match_percent / 100)
EffectivePriceChange(our_price_change, match_percent) ==
    RMul(R(our_price_change), RSub(R(1), RDiv(R(match_percent), R(100))))

\* competitor_response.get(key, default); the dict is a record with the
\* keys the caller passed
Get(dict, key, default) == IF key \in DOMAIN dict THEN dict[key] ELSE default

\* the two simulate_scenario calls of simulate_competitive_response: phase 1
\* at the full change over delay_days, phase 2 at the effective change over
\* 30 days; none when the product has no row
CompetitiveCalls(prods, sls, product_id, elasticity_result, our_price_change, competitor_response) ==
    LET product == GetProduct(prods, product_id)
    IN  IF product = NoRow THEN <<>>
        ELSE <<simulate_scenario(prods, sls, product_id, elasticity_result,
                   PriceAfterChange(product.current_price, R(our_price_change)),
                   Get(competitor_response, "delay_days", 7)),
               simulate_scenario(prods, sls, product_id, elasticity_result,
                   PriceAfterChange(product.current_price,
                       EffectivePriceChange(our_price_change,
                           Get(competitor_response, "match_percent", 100))),
                   30)>>

\* simulate_competitive_response up to its return value, given the results
\* of its two calls; an error dict has no 'revenue' key
simulate_competitive_response(product_id, calls, our_price_change, competitor_response) ==
    IF calls = <<>> THEN Err("Product not found")
    ELSE IF calls[1].status = "raised" THEN calls[1]
    ELSE IF calls[2].status = "raised" THEN calls[2]
    ELSE IF ~IsOk(calls[1]) \/ ~IsOk(calls[2]) THEN Raised("KeyError")
    ELSE [status |-> "ok",
          product_id |-> product_id,
          our_price_change |-> our_price_change,
          delay_days |-> Get(competitor_response, "delay_days", None),
          match_percent |-> Get(competitor_response, "match_percent", 100),
          phase1 |-> calls[1],
          phase2 |-> calls[2],
          total_revenue_impact |->
              RAdd(calls[1].total_revenue_change, calls[2].total_revenue_change),
          total_profit_impact |->
              RAdd(calls[1].total_profit_change, calls[2].total_profit_change)]

\* ScenarioSimulator.simulate_competitive_response(product_id,
\* our_price_change, competitor_response)
CompetitiveResponse(product_id, our_price_change, competitor_response) ==
    \E er \in LatestEstimateChoices(estimates, product_id) :
    \E calls \in {CompetitiveCalls(products, sales, product_id, er,
                      our_price_change, competitor_response)} :
    \E saved \in {SaveScenarios(scenarios, CallsMade(calls, 1), 1)} :
        /\ Len(saved) <= MaxScenarios
        /\ scenarios' = saved
        /\ \E result \in {simulate_competitive_response(product_id, calls,
                              our_price_change, competitor_response)} :
              last' = Tag("simulate_competitive_response",
                          <<product_id, our_price_change, competitor_response>>,
                          result)
        /\ UNCHANGED <<products, sales, estimates, now, pending>>

\* simulate_competitive_response up to the return of its first
\* simulate_scenario call (lines 295-309), which has queried the latest
\* estimate and committed the phase 1 scenario; the call ends here when the
\* product has no row or the simulation raises
CompetitivePhase1(product_id, our_price_change, competitor_response) ==
    \E er \in LatestEstimateChoices(estimates, product_id) :
    \E calls \in {CompetitiveCalls(products, sales, product_id, er,
                      our_price_change, competitor_response)} :
        /\ pending = Idle
        /\ Len(scenarios) + 2 <= MaxScenarios
        /\ IF calls = <<>> \/ CallsMade(calls, 1) = <<>>
           THEN /\ last' = Tag("simulate_competitive_response",
                               <<product_id, our_price_change, competitor_response>>,
                               simulate_competitive_response(product_id, calls,
                                   our_price_change, competitor_response))
                /\ UNCHANGED <<scenarios, pending>>
           ELSE /\ scenarios' = SaveScenario(scenarios, calls[1])
                /\ pending' = [call |-> "simulate_competitive_response",
                               product_id |-> product_id,
                               our_price_change |-> our_price_change,
                               competitor_response |-> competitor_response,
                               phase1 |-> calls[1]]
                /\ UNCHANGED last
        /\ UNCHANGED <<products, sales, estimates, now>>

\* the rest of the call (lines 311-345): the second simulate_scenario call
\* queries the latest estimate again (lines 36-38), in the transaction that
\* began after the commit of phase 1
CompetitivePhase2 ==
    /\ pending # Idle
    /\ \E er \in LatestEstimateChoices(estimates, pending.product_id) :
       \E calls \in {CompetitiveCalls(products, sales, pending.product_id, er,
                         pending.our_price_change, pending.competitor_response)} :
           /\ scenarios' = SaveScenario(scenarios, calls[2])
           /\ last' = Tag("simulate_competitive_response",
                          <<pending.product_id, pending.our_price_change,
                            pending.competitor_response>>,
                          simulate_competitive_response(pending.product_id,
                              <<pending.phase1, calls[2]>>,
                              pending.our_price_change,
                              pending.competitor_response))
    /\ pending' = Idle
    /\ UNCHANGED <<products, sales, estimates, now>>

\* the rows with a season (line 355: for sale in sales if sale.season)
SeasonedRows(rows) == [r \in {x \in DOMAIN rows : x.season # ""} |-> rows[r]]

RowsOfSeason(rows, season) ==
    [r \in {x \in DOMAIN rows : x.season = season} |-> rows[r]]

\* the overall mean over the mean of the season
SeasonFactor_inverse(df, season) ==
    IF RowCount(RowsOfSeason(df, season)) = 0 THEN R(1)
    ELSE RDiv(Mean(df, "quantity"), Mean(RowsOfSeason(df, season), "quantity"))

\* lines 361-364: the mean quantity of the season over the mean quantity of
\* all seasons (numpy division), 1.0 for a season without rows
SeasonFactor(df, season) ==
    IF RowCount(RowsOfSeason(df, season)) = 0 THEN R(1)
    ELSE RDiv(Mean(RowsOfSeason(df, season), "quantity"), Mean(df, "quantity"))

\* lines 369-384: the base scenario adjusted for the season
SeasonalAdjusted(product, base_scenario, new_price, season, season_factor) ==
    LET pred_qty == RMul(base_scenario.predicted_daily_quantity, season_factor)
    IN  [base_scenario EXCEPT
            !.predicted_daily_quantity = pred_qty,
            !.predicted_daily_revenue = Round(RMul(new_price, pred_qty), 2),
            !.predicted_daily_profit =
                Round(RMul(RSub(new_price, product.unit_cost), pred_qty), 2)]
        @@ [seasonal_adjustment |-> season_factor, season |-> season]

\* simulate_seasonal_scenario up to its return value, given the result of
\* its simulate_scenario call; an error dict has no 'demand' key
simulate_seasonal_scenario(prods, sls, product_id, base_scenario, new_price, season) ==
    LET df == SeasonedRows(SalesOf(sls, product_id))
    IN  IF RowCount(df) = 0 THEN base_scenario
        ELSE IF base_scenario.status = "raised" THEN base_scenario
        ELSE IF ~IsOk(base_scenario) THEN Raised("KeyError")
        ELSE SeasonalAdjusted(GetProduct(prods, product_id), base_scenario,
                              new_price, season, SeasonFactor(df, season))

\* ScenarioSimulator.simulate_seasonal_scenario(product_id, new_price, season)
SeasonalScenario(product_id, new_price, season) ==
    \E er \in LatestEstimateChoices(estimates, product_id) :
    \E base \in {simulate_scenario(products, sales, product_id, er, new_price, 30)} :
        /\ Len(scenarios) < MaxScenarios
        /\ scenarios' = SaveScenario(scenarios, base)
        /\ \E result \in {simulate_seasonal_scenario(products, sales,
                              product_id, base, new_price, season)} :
              last' = Tag("simulate_seasonal_scenario",
                          <<product_id, new_price, season>>, result)
        /\ UNCHANGED <<products, sales, estimates, now, pending>>

\* ElasticityCalculator._classify_elasticity(coefficient), called on its own
Classify(coefficient) ==
    /\ last' = [op |-> "classify_elasticity", status |-> "ok",
                coefficient |-> coefficient,
                label |-> classify_elasticity(coefficient)]
    /\ UNCHANGED <<products, sales, estimates, scenarios, now, pending>>

\* ScenarioSimulator._generate_recommendation(price_change, revenue_change,
\* profit_change), called on its own
Recommend(price_change, revenue_change, profit_change) ==
    /\ last' = [op |-> "generate_recommendation", status |-> "ok",
                revenue_change |-> revenue_change,
                profit_change |-> profit_change,
                action |-> generate_recommendation(price_change,
                               revenue_change, profit_change)]
    /\ UNCHANGED <<products, sales, estimates, scenarios, now, pending>>

----------------------------------------------------------------------------
(* Inputs the callers pass *)

\* candidate prices as multiples of the current price: 31% and 30.01% down,
\* 30% down, 10% down, 20%, 20.01% and 21% up
PriceFactors ==
    {Frac(69, 100), Frac(6999, 10000), Frac(70, 100), Frac(90, 100),
     Frac(120, 100), Frac(12001, 10000), Frac(121, 100)}

\* the candidate price that is factor times the current price of the
\* product (times 100 for a product id with no row)
PriceAt(product_id, factor) ==
    IF product_id \in DOMAIN products
    THEN RMul(products[product_id].current_price, factor)
    ELSE RMul(R(100), factor)

\* minimum margins: none, 20%, 75%
CostConstraints == {None, Frac(1, 5), Frac(3, 4)}

\* price ranges of the curve as multiples of the current price: the default,
\* a range that starts at the current price and one that ends there
RangeFactors == {None, <<R(1), Frac(3, 2)>>, <<Frac(1, 2), R(1)>>}

RangeAt(product_id, factors) ==
    IF factors = None THEN None
    ELSE <<PriceAt(product_id, factors[1]), PriceAt(product_id, factors[2])>>

CurveIndexes == {0, 25, CurvePoints - 1}

\* coefficients -2.50, -2.45, ..., 2.50
ClassifyInputs == {Frac(k, 20) : k \in -50..50}

\* percent changes around the thresholds -5, 0 and 5, and the float64 specials
ChangeInputs ==
    {R(-6), R(-5), Frac(-9, 2), Frac(-1, 100), R(0), Frac(1, 100), R(5),
     Frac(501, 100), <<1, 0>>, <<-1, 0>>, <<0, 0>>}

FitExample == Fit(Frac(-3, 2), Frac(-9, 5), Frac(-6, 5))

FitExtremeElastic == Fit(R(-50), R(-60), R(-40))

FitExtremeInelastic == Fit(Frac(-1, 100), Frac(-1, 10), Frac(1, 10))

FitUnit == Fit(R(-1), Frac(-11, 10), Frac(-9, 10))

FitInelastic == Fit(Frac(-1, 2), Frac(-3, 5), Frac(-2, 5))

FitZero == Fit(R(0), Frac(-1, 10), Frac(1, 10))

\* an interval that ends at 0.0: the bootstrap of the boosted model differences
\* two predictions of a piecewise-constant model, which are often equal
FitZeroUpper == Fit(Frac(-1, 2), R(-1), R(0))

----------------------------------------------------------------------------
(* Steps over sets of inputs *)

CalculateOver(product_ids, fits) ==
    \E product_id \in product_ids, fit \in fits :
        CalculateElasticity(product_id, fit)

SimulateOver(product_ids, factors, horizons) ==
    \E product_id \in product_ids, factor \in factors, simulation_days \in horizons :
        SimulateScenario(product_id, PriceAt(product_id, factor), simulation_days)

OptimizeOver(product_ids, cost_constraints) ==
    \E product_id \in product_ids, cost_constraint \in cost_constraints :
        OptimizeRevenue(product_id, cost_constraint)

CurveOver(product_ids, ranges, indexes) ==
    \E product_id \in product_ids, factors \in ranges, i \in indexes :
        ElasticityCurve(product_id, RangeAt(product_id, factors), i)

BulkOver(product_lists, change_lists) ==
    \E product_ids \in product_lists, price_changes \in change_lists :
        BulkSimulate(product_ids, price_changes)

\* competitor_response dicts
Response(delay_days, match_percent) ==
    [delay_days |-> delay_days, match_percent |-> match_percent]

CompetitiveOver(product_ids, changes, responses) ==
    \E product_id \in product_ids, our_price_change \in changes :
        \E competitor_response \in responses :
            CompetitiveResponse(product_id, our_price_change, competitor_response)

SeasonalOver(product_ids, factors, seasons) ==
    \E product_id \in product_ids, factor \in factors, season \in seasons :
        SeasonalScenario(product_id, PriceAt(product_id, factor), season)

CompareOver(id_lists) ==
    \E scenario_ids \in id_lists : CompareScenarios(scenario_ids)

----------------------------------------------------------------------------
(* Specifications *)

\* every operation, on the worked example and on the product sold at cost;
\* product 2 never gets an estimate, product id 3 has sales but no row
Init == \E world \in {WorldStd, WorldAtCost} : InitWith(world)

Next ==
    \/ CalculateOver({1, 3}, {FitExample, FitZero})
    \/ SimulateOver({1, 2}, {Frac(90, 100)}, {30})
    \/ OptimizeOver({1}, {None})
    \/ CurveOver({1}, {None}, {0})
    \/ BulkOver({<<1, 2>>, <<3, 1>>}, {<<-10, 10>>, <<-10>>, <<-40>>})

Spec == Init /\ [][Next]_vars

\* the classifier on its own
NextClassify == \E coefficient \in ClassifyInputs : Classify(coefficient)

SpecClassify == InitWith(WorldStd) /\ [][NextClassify]_vars

\* the recommendation label on its own
NextRecommend ==
    \E revenue_change \in ChangeInputs, profit_change \in ChangeInputs :
        Recommend(R(-10), revenue_change, profit_change)

SpecRecommend == InitWith(WorldStd) /\ [][NextRecommend]_vars

\* the calculator on complete, thin and partly unusable histories and on
\* products with a thin or negative margin
InitCalculate ==
    \E world \in {WorldStd, WorldSoldOut, WorldFewRows, WorldMixedRows,
                  WorldThinMargin, WorldBelowCost} :
        InitWith(world)

NextCalculate ==
    CalculateOver({1, 2, 3},
                  {FitExample, FitExtremeElastic, FitInelastic, FitZero})

SpecCalculate == InitCalculate /\ [][NextCalculate]_vars

\* products without an estimate and product ids without a row: product 1
\* gets estimates, product 2 never does, product id 3 has no row
NextMissing ==
    \/ CalculateOver({1}, {FitExample})
    \/ SimulateOver({1, 2, 3}, {Frac(69, 100), Frac(90, 100)}, {30})
    \/ OptimizeOver({1, 2, 3}, {None, Frac(1, 5)})
    \/ CurveOver({1, 2, 3}, {None}, {0})

SpecMissing == InitWith(WorldStd) /\ [][NextMissing]_vars

\* the simulator, the optimizer and the curve next to the calculator, on
\* a product with two seasons
InitFrame == InitWith(WorldSeasons)

NextFrame ==
    \/ CalculateOver({1}, {FitExample})
    \/ SimulateOver({1, 2}, {Frac(90, 100)}, {30})
    \/ OptimizeOver({1, 3}, {None})
    \/ CurveOver({1, 3}, {None}, {0})
    \/ BulkOver({<<1, 2>>}, {<<-10>>})
    \/ CompetitiveOver({1, 3}, {-10}, {Response(7, 50)})
    \/ SeasonalOver({1, 3}, {Frac(90, 100)}, {"Fall", "Summer"})
    \/ CompareOver({<<1, 2>>, <<3>>})

SpecFrame == InitFrame /\ [][NextFrame]_vars

\* simulate_scenario called again and again, with other simulations in
\* between
NextRepeat ==
    \/ CalculateOver({1}, {FitExample})
    \/ SimulateOver({1, 2}, {Frac(90, 100), Frac(110, 100)}, {30})
    \/ CompetitiveOver({1}, {-10}, {Response(7, 100)})

SpecRepeat == InitWith(WorldSeasons) /\ [][NextRepeat]_vars

\* scenarios of the worked example and of the product sold at cost, compared
InitCompare == \E world \in {WorldStd, WorldAtCost} : InitWith(world)

NextCompare ==
    \/ CalculateOver({1}, {FitExample})
    \/ SimulateOver({1}, {Frac(70, 100), Frac(90, 100), Frac(110, 100)}, {30})
    \/ CompareOver({<<1>>, <<1, 2>>, <<1, 2, 3>>, <<4>>})

SpecCompare == InitCompare /\ [][NextCompare]_vars

\* the linear model on histories that follow a log-linear law
InitLinear ==
    \E law \in Laws, design \in Designs : InitWith(WorldLaw(law, design))

NextLinear ==
    \E product_id \in {1, 2}, margin \in {R(0), Frac(1, 10)} :
        CalculateLinear(product_id, margin)

SpecLinear == InitLinear /\ [][NextLinear]_vars

\* the competitive response with price changes inside and outside the
\* limits, with and without the keys of competitor_response
NextCompetitive ==
    \/ CalculateOver({1}, {FitExample})
    \/ CompetitiveOver({1, 2, 3}, {-10, -40},
                       {Response(14, 50), [match_percent |-> 0]})

SpecCompetitive == InitWith(WorldStd) /\ [][NextCompetitive]_vars

\* the seasonal simulation for seasons with and without history
InitSeasonal == InitWith(WorldSeasonsOdd)

NextSeasonal ==
    \/ CalculateOver({1}, {FitExample})
    \/ SeasonalOver({1, 2}, {Frac(90, 100), Frac(110, 100)},
                    {"Winter", "Fall", "Summer"})

SpecSeasonal == InitSeasonal /\ [][NextSeasonal]_vars

\* the optimizer on elastic, unit-elastic and inelastic estimates, for
\* ordinary prices, a price below cost and a price of two cents
InitNoDecrease ==
    \E world \in {WorldStd, WorldBelowCost, WorldCents} : InitWith(world)

NextNoDecrease ==
    \/ CalculateOver({1}, {FitExample, FitExtremeElastic, FitUnit, FitInelastic})
    \/ OptimizeOver({1}, {None, Frac(1, 5)})

SpecNoDecrease == InitNoDecrease /\ [][NextNoDecrease]_vars

\* the advice attached to a simulated scenario after a cost cut: the current
\* price and a 10% increase, for an elastic and a very elastic estimate
InitAdvice == InitWith(WorldCostCut)

NextAdvice ==
    \/ CalculateOver({1}, {FitExample, FitExtremeElastic})
    \/ SimulateOver({1}, {R(1), Frac(110, 100)}, {30})

SpecAdvice == InitAdvice /\ [][NextAdvice]_vars

\* a competitive response whose two phases are separate steps, next to
\* requests that store new estimates
NextConcurrent ==
    \/ CalculateOver({1}, {FitExample, FitInelastic})
    \/ \E product_id \in {1, 3} :
          CompetitivePhase1(product_id, -10, Response(7, 50))
    \/ CompetitivePhase2

SpecConcurrent == InitWith(WorldStd) /\ [][NextConcurrent]_vars

\* the price limits of simulate_scenario
InitValidate == \E world \in {WorldStd, WorldThinMargin} : InitWith(world)

NextValidate ==
    \/ CalculateOver({1}, {FitExample})
    \/ SimulateOver({1, 2, 3}, PriceFactors, {30})

SpecValidate == InitValidate /\ [][NextValidate]_vars

\* the projection of simulate_scenario
InitProject ==
    \E world \in {WorldStd, WorldAtCost, WorldSoldOut, WorldThinMargin} :
        InitWith(world)

NextProject ==
    \/ CalculateOver({1}, {FitExample})
    \/ SimulateOver({1}, {Frac(90, 100), Frac(110, 100)}, {7, 30})

SpecProject == InitProject /\ [][NextProject]_vars

\* the revenue optimizer
InitOptimize == \E world \in Worlds : InitWith(world)

NextOptimize ==
    \/ CalculateOver({1}, {FitExample, FitExtremeElastic, FitExtremeInelastic})
    \/ OptimizeOver({1, 2, 3}, CostConstraints)

SpecOptimize == InitOptimize /\ [][NextOptimize]_vars

\* the curve
InitCurve == \E world \in {WorldStd, WorldThinMargin} : InitWith(world)

NextCurve ==
    \/ CalculateOver({1}, {FitExample, FitExtremeInelastic})
    \/ CurveOver({1, 2, 3}, RangeFactors, CurveIndexes)

SpecCurve == InitCurve /\ [][NextCurve]_vars

\* which estimate is the latest: two products, several estimates each
NextLatest ==
    \/ CalculateOver({1}, {FitExample, FitInelastic})
    \/ CalculateOver({2}, {FitUnit})
    \/ SimulateOver({1}, {Frac(90, 100)}, {30})
    \/ OptimizeOver({1}, {None})
    \/ CurveOver({1}, {None}, {0})

SpecLatest == InitWith(WorldStd) /\ [][NextLatest]_vars

\* the confidence bounds of simulate_scenario
NextConfidence ==
    \/ CalculateOver({1}, {FitExample, FitZeroUpper})
    \/ SimulateOver({1}, {Frac(90, 100), Frac(110, 100)}, {30})

SpecConfidence == InitWith(WorldStd) /\ [][NextConfidence]_vars

----------------------------------------------------------------------------
(* Claims *)

IsSimulate == last.op = "simulate_scenario"

IsOptimize == last.op = "calculate_revenue_optimization"

IsCurve == last.op = "get_elasticity_curve"

LimitErrors ==
    {"Price decrease exceeds 30% limit", "Price increase exceeds 20% limit"}

\* the call passed the product and estimate lookups
ReachedValidation ==
    /\ IsSimulate
    /\ last.args[1] \in DOMAIN products
    /\ ~(last.status = "error" /\ last.error \in
            {"Product not found",
             "No elasticity data available. Calculate elasticity first."})

\* (candidate_price - current_price) / current_price * 100 of the last call
LastPriceChange ==
    RMul(RDiv(RSub(last.args[2], products[last.args[1]].current_price),
              products[last.args[1]].current_price), R(100))

\* C1: a simulate_scenario call that reaches the limit check returns a
\* price-limit error exactly when its price change is below -30 or above
\* +20 (the decrease message below -30, the increase message above +20);
\* at exactly -30, exactly +20 and in between it returns no such error.
C1_PriceLimits ==
    ReachedValidation =>
        /\ RLt(LastPriceChange, R(-30)) <=>
              (last.status = "error"
               /\ last.error = "Price decrease exceeds 30% limit")
        /\ RGt(LastPriceChange, R(20)) <=>
              (last.status = "error"
               /\ last.error = "Price increase exceeds 20% limit")
        /\ (RGe(LastPriceChange, R(-30)) /\ RLe(LastPriceChange, R(20))) =>
              ~(last.status = "error" /\ last.error \in LimitErrors)

\* a scenario at exactly -30% was accepted
C1_Witness ==
    /\ ReachedValidation
    /\ LastPriceChange = R(-30)
    /\ last.status = "ok"

FourLabels == {"highly_elastic", "elastic", "unit_elastic", "inelastic"}

\* the band of a coefficient n/d by the claim's order, on integers
BandOf(c) ==
    LET a == AbsInt(c[1])
        d == c[2]
    IN  IF a > 2 * d THEN "highly_elastic"
        ELSE IF a > d THEN "elastic"
        ELSE IF 10 * a >= 9 * d /\ 10 * a <= 11 * d THEN "unit_elastic"
        ELSE "inelastic"

\* C2: classify returns one of the four labels, decided on |coefficient| in
\* the order highly_elastic (> 2), elastic (> 1), unit_elastic (0.9..1.1),
\* inelastic; |c| = 2.0 and 1.1 are elastic, 1.0 and 0.9 unit_elastic; c and
\* -c get the same label.
C2_ClassifyBands ==
    last.op = "classify_elasticity" =>
        /\ last.label \in FourLabels
        /\ last.label = BandOf(last.coefficient)
        /\ RAbs(last.coefficient) \in {R(2), Frac(11, 10)} => last.label = "elastic"
        /\ RAbs(last.coefficient) \in {R(1), Frac(9, 10)} => last.label = "unit_elastic"
        /\ last.label = classify_elasticity(RNeg(last.coefficient))

\* -1.1 was classified, as elastic
C2_Witness ==
    /\ last.op = "classify_elasticity"
    /\ last.coefficient = Frac(-11, 10)
    /\ last.label = "elastic"

InUnitBand(c) == RGe(RAbs(c), Frac(9, 10)) /\ RLe(RAbs(c), Frac(11, 10))

\* C3 as stated: every coefficient with |c| in [0.9, 1.1] is unit_elastic.
C3_Original ==
    (last.op = "classify_elasticity" /\ InUnitBand(last.coefficient)) =>
        last.label = "unit_elastic"

\* C3 amended: every coefficient with |c| in [0.9, 1.0] is unit_elastic, and
\* every coefficient with |c| in (1.0, 1.1] is elastic.
C3_UnitBand ==
    (last.op = "classify_elasticity" /\ InUnitBand(last.coefficient)) =>
        IF RLe(RAbs(last.coefficient), R(1))
        THEN last.label = "unit_elastic"
        ELSE last.label = "elastic"

\* 1.05 was classified, as elastic
C3_Witness ==
    /\ last.op = "classify_elasticity"
    /\ last.coefficient = Frac(105, 100)
    /\ last.label = "elastic"

LastProduct == products[last.product_id]

PriceFloor == RMul(LastProduct.unit_cost, Frac(11, 10))

PriceCap == RMul(LastProduct.current_price, R(2))

HalfCent == Frac(5, 1000)

\* C4 as stated: the returned optimal price p satisfies
\* unit_cost * 1.1 <= p <= current_price * 2.
C4_Original ==
    (IsOptimize /\ IsOk(last)) =>
        /\ RGe(last.optimal_price, PriceFloor)
        /\ RLe(last.optimal_price, PriceCap)

\* C4 amended: the returned optimal price p is a price of the interval
\* [unit_cost * 1.1, max(current_price * 2, unit_cost * 1.1)] rounded to two
\* decimals: unit_cost * 1.1 - 0.005 <= p <= max(current_price * 2,
\* unit_cost * 1.1) + 0.005, and p is a whole number of cents.
C4_OptimalPriceBounds ==
    (IsOptimize /\ IsOk(last)) =>
        /\ RGe(last.optimal_price, RSub(PriceFloor, HalfCent))
        /\ RLe(last.optimal_price, RAdd(RMax(PriceCap, PriceFloor), HalfCent))
        /\ Round(last.optimal_price, 2) = last.optimal_price

\* the optimizer returned the floor of a product whose floor is above its cap
C4_Witness ==
    /\ IsOptimize
    /\ IsOk(last)
    /\ RGt(PriceFloor, PriceCap)
    /\ last.optimal_price = Round(PriceFloor, 2)

IsBulk == last.op = "bulk_simulate"

IsErrorEntry(entry) == entry.status = "error"

\* C5: bulk_simulate returns the successes together with an error entry for
\* each failing item: the entries of its result, successes and error
\* entries together, are as many as the product/price combinations.
C5_BulkReportsFailures ==
    IsBulk =>
        /\ IsOk(last)
        /\ Len(SelectSeq(last.scenarios, IsOk))
              + Len(SelectSeq(last.scenarios, IsErrorEntry))
           = Len(last.args[1]) * Len(last.args[2])

\* C6: calculate_elasticity never lets an exception escape.
C6_NoExceptionEscapes ==
    last.op = "calculate_elasticity" => last.status # "raised"

\* C7: with a zero historical baseline simulate_scenario and
\* calculate_revenue_optimization return an error result: they never raise,
\* and no result they return has a NaN or infinite percent-change field.
C7_ZeroBaselineGuarded ==
    (IsSimulate \/ IsOptimize) =>
        /\ last.status # "raised"
        /\ IsOk(last) =>
              /\ IsFinite(last.revenue_change_percent)
              /\ IsFinite(last.profit_change_percent)

\* the coefficients of the estimates of a product that no estimate of the
\* product is newer than
NewestCoefficients(ests, product_id) ==
    {ests[i].elasticity_coefficient :
        i \in {k \in 1..Len(ests) :
                 /\ ests[k].product_id = product_id
                 /\ \A j \in 1..Len(ests) :
                       ests[j].product_id = product_id =>
                           ests[j].calculation_date <= ests[k].calculation_date}}

UsedCoefficient(result) ==
    IF result.op = "simulate_scenario" THEN result.coefficient
    ELSE IF result.op = "calculate_revenue_optimization" THEN result.elasticity_used
    ELSE result.elasticity

\* C8: simulate_scenario, calculate_revenue_optimization and
\* get_elasticity_curve for product p use the coefficient of an estimate of
\* p with the greatest calculation_date among the estimates of p.
C8_LatestEstimateUsed ==
    [][(/\ last'.op \in {"simulate_scenario", "calculate_revenue_optimization",
                         "get_elasticity_curve"}
        /\ last'.status = "ok")
       => UsedCoefficient(last') \in NewestCoefficients(estimates', last'.product_id)]_vars

\* product 1 has two estimates with different dates and coefficients, and
\* the simulation used the newer one
C8_Witness ==
    /\ IsSimulate
    /\ IsOk(last)
    /\ Len(estimates) = 2
    /\ estimates[1].product_id = 1
    /\ estimates[2].product_id = 1
    /\ estimates[1].calculation_date < estimates[2].calculation_date
    /\ estimates[1].elasticity_coefficient # estimates[2].elasticity_coefficient
    /\ last.coefficient = estimates[2].elasticity_coefficient

\* the exact projection of the last accepted scenario, from the claim's formulas
ExactPriceChange ==
    RMul(RDiv(RSub(last.new_price, last.current_price), last.current_price), R(100))

ExactQuantityChange == RMul(last.coefficient, ExactPriceChange)

BaselineQuantity ==
    Mean(RecentRows(sales[last.product_id]), "quantity")

ExactQuantity ==
    RMul(BaselineQuantity, RAdd(R(1), RDiv(ExactQuantityChange, R(100))))

ExactRevenue == RMul(last.new_price, ExactQuantity)

ExactProfit == RMul(RSub(last.new_price, LastProduct.unit_cost), ExactQuantity)

\* C9: for every accepted scenario quantity_change_percent = coefficient *
\* price_change_percent, projected quantity = baseline quantity * (1 +
\* quantity_change_percent / 100), projected revenue = candidate_price *
\* projected quantity, projected profit = (candidate_price - unit_cost) *
\* projected quantity, period totals = daily value * horizon_days (each
\* rounded as returned); with price 100, cost 60, coefficient -1.5,
\* candidate 90, baseline quantity 50 and revenue 5000 the result is -10%,
\* +15%, 57.5, 5175 and +3.5%.
C9_Projection ==
    (IsSimulate /\ IsOk(last)) =>
        /\ last.price_change_percent = Round(ExactPriceChange, 2)
        /\ last.quantity_change_percent = Round(ExactQuantityChange, 2)
        /\ last.predicted_daily_quantity = Round(ExactQuantity, 1)
        /\ last.predicted_daily_revenue = Round(ExactRevenue, 2)
        /\ last.predicted_daily_profit = Round(ExactProfit, 2)
        /\ last.total_predicted_volume =
              Round(RMul(ExactQuantity, R(last.simulation_days)), 0)
        /\ last.total_predicted_revenue =
              Round(RMul(ExactRevenue, R(last.simulation_days)), 2)
        /\ last.total_predicted_profit =
              Round(RMul(ExactProfit, R(last.simulation_days)), 2)
        /\ (/\ last.current_price = R(100)
            /\ LastProduct.unit_cost = R(60)
            /\ last.coefficient = Frac(-3, 2)
            /\ last.new_price = R(90)
            /\ BaselineQuantity = R(50)
            /\ last.current_daily_revenue = R(5000))
           => /\ last.price_change_percent = R(-10)
              /\ last.quantity_change_percent = R(15)
              /\ last.predicted_daily_quantity = Frac(575, 10)
              /\ last.predicted_daily_revenue = R(5175)
              /\ last.revenue_change_percent = Frac(35, 10)

\* the worked example was simulated
C9_Witness ==
    /\ IsSimulate
    /\ IsOk(last)
    /\ last.current_price = R(100)
    /\ LastProduct.unit_cost = R(60)
    /\ last.coefficient = Frac(-3, 2)
    /\ last.new_price = R(90)
    /\ last.current_daily_quantity = R(50)
    /\ last.current_daily_revenue = R(5000)
    /\ last.predicted_daily_revenue = R(5175)

\* C10: the curve evaluated at P = current_price gives quantity = Q_avg,
\* revenue = current_price * Q_avg and profit = (current_price - unit_cost)
\* * Q_avg, for every coefficient.
C10_CurveAtCurrentPrice ==
    (IsCurve /\ IsOk(last) /\ last.price = last.current_price) =>
        /\ last.quantity = last.current_quantity
        /\ last.revenue = RMul(last.current_price, last.current_quantity)
        /\ last.profit =
              RMul(RSub(last.current_price, LastProduct.unit_cost),
                   last.current_quantity)

\* a curve with coefficient -1.5 has a point at the current price
C10_Witness ==
    /\ IsCurve
    /\ IsOk(last)
    /\ last.price = last.current_price
    /\ last.elasticity = Frac(-3, 2)

\* the margin the caller asked for, or None
LastMargin == last.args[2]

\* C11: whenever a minimum margin m is supplied, the optimal price
\* calculate_revenue_optimization returns is at least unit_cost / (1 - m)
\* (to within the half cent that rounding the price to two decimals moves it).
C11_MarginFloor ==
    (IsOptimize /\ IsOk(last) /\ LastMargin # None) =>
        RGe(last.optimal_price,
            RSub(RDiv(LastProduct.unit_cost, RSub(R(1), LastMargin)), HalfCent))

\* the elasticity bound the claim uses: the stored one when the estimate
\* carries it, else the coefficient times the factor
BoundOf(stored, coefficient, factor) ==
    IF stored # None THEN stored ELSE RMul(coefficient, factor)

\* baseline_quantity * (1 + elasticity_bound * fractional price change)
BoundQuantity(bound) ==
    RMul(BaselineQuantity,
         RAdd(R(1), RMul(bound, RDiv(ExactPriceChange, R(100)))))

BoundsFrom(estimate) ==
    LET lower == BoundOf(estimate.confidence_interval_lower,
                         estimate.elasticity_coefficient, Frac(8, 10))
        upper == BoundOf(estimate.confidence_interval_upper,
                         estimate.elasticity_coefficient, Frac(12, 10))
    IN  [quantity_lower |-> Round(BoundQuantity(lower), 1),
         quantity_upper |-> Round(BoundQuantity(upper), 1),
         revenue_lower |-> Round(RMul(last.new_price, BoundQuantity(lower)), 2),
         revenue_upper |-> Round(RMul(last.new_price, BoundQuantity(upper)), 2)]

\* C12: the confidence bounds of a scenario are computed from the stored
\* lower and upper elasticity bounds of the estimate it used whenever the
\* estimate carries them, whatever their values (coefficient * 0.8 and
\* coefficient * 1.2 only without them): quantity = baseline quantity * (1 +
\* bound * fractional price change), revenue = candidate price * quantity.
C12_ConfidenceBounds ==
    (IsSimulate /\ IsOk(last)) =>
        \E i \in 1..Len(estimates) :
            /\ estimates[i].product_id = last.product_id
            /\ estimates[i].elasticity_coefficient = last.coefficient
            /\ last.confidence_interval = BoundsFrom(estimates[i])

IsRecommend == last.op = "generate_recommendation"

\* the label by the claim's rules, in the claim's order
LabelOf(revenue, profit) ==
    IF RGt(revenue, R(5)) /\ RGt(profit, R(5)) THEN "Highly Recommended"
    ELSE IF RGt(revenue, R(0)) /\ RGt(profit, R(0)) THEN "Recommended"
    ELSE IF RGt(profit, R(0)) /\ RLt(revenue, R(0)) THEN "Consider"
    ELSE IF RGt(profit, R(-5)) /\ RLe(profit, R(0)) /\ RLt(revenue, R(0))
        THEN "Caution"
    ELSE "Not Recommended"

\* C13: the recommendation label is a total function of (revenue change %,
\* profit change %): both > 5 highly recommended; otherwise both > 0
\* recommended; otherwise profit > 0 and revenue < 0 consider; otherwise
\* profit in (-5, 0] and revenue < 0 caution; every other pair not
\* recommended.
C13_RecommendationLabel ==
    IsRecommend =>
        /\ last.action \in {"Highly Recommended", "Recommended", "Consider",
                            "Caution", "Not Recommended"}
        /\ last.action = LabelOf(last.revenue_change, last.profit_change)

\* a slight profit decrease with falling revenue was labelled caution
C13_Witness ==
    /\ IsRecommend
    /\ last.revenue_change = Frac(-1, 100)
    /\ last.profit_change = Frac(-9, 2)
    /\ last.action = "Caution"

IsCalculate == last.op = "calculate_elasticity"

\* the observations of a product with price > 0 and quantity > 0, counted
UsableRows(product_id) ==
    IF product_id \in DOMAIN sales
    THEN {row \in DOMAIN sales[product_id] :
             /\ row.price[1] > 0
             /\ row.quantity > 0}
    ELSE {}

UsableCount(product_id) ==
    IF UsableRows(product_id) = {} THEN 0
    ELSE RowCountOver(sales[product_id], UsableRows(product_id))

InsufficientErrors ==
    {"Insufficient data for elasticity calculation",
     "Insufficient valid sales data (positive price and quantity required)"}

\* C14: calculate_elasticity returns an insufficient-data error exactly when
\* fewer than 10 observations with price > 0 and quantity > 0 exist, and a
\* calculation that goes through fits exactly those observations: the rows
\* with non-positive price or quantity are dropped.
C14_InsufficientData ==
    IsCalculate =>
        /\ (last.status = "error" /\ last.error \in InsufficientErrors)
              <=> UsableCount(last.args[1]) < 10
        /\ IsOk(last) => last.rows_used = UsableCount(last.args[1])

\* twelve rows of which nine are usable were rejected after the filter
C14_Witness ==
    /\ IsCalculate
    /\ last.status = "error"
    /\ last.error = "Insufficient valid sales data (positive price and quantity required)"
    /\ RowCount(sales[last.args[1]]) >= 10
    /\ UsableCount(last.args[1]) = 9

\* the bounds of the recommended optimal price of estimate i
AdviceFloor(i) == RMul(products[estimates[i].product_id].unit_cost, Frac(11, 10))

AdviceCap(i) == RMul(products[estimates[i].product_id].current_price, Frac(15, 10))

\* C15 as stated: the optimal_price of the recommendation attached to an
\* estimate lies in [unit_cost * 1.1, current_price * 1.5].
C15_Original ==
    \A i \in 1..Len(estimates) :
        /\ RGe(estimates[i].optimal_price, AdviceFloor(i))
        /\ RLe(estimates[i].optimal_price, AdviceCap(i))

\* C15 amended: the optimal_price of the recommendation attached to an
\* estimate is a price of the interval [unit_cost * 1.1, max(current_price *
\* 1.5, unit_cost * 1.1)] rounded to two decimals, and it is the value the
\* calculation returned in its recommendations.
C15_AdviceBounds ==
    /\ \A i \in 1..Len(estimates) :
          /\ RGe(estimates[i].optimal_price, RSub(AdviceFloor(i), HalfCent))
          /\ RLe(estimates[i].optimal_price,
                 RAdd(RMax(AdviceCap(i), AdviceFloor(i)), HalfCent))
          /\ Round(estimates[i].optimal_price, 2) = estimates[i].optimal_price
    /\ (IsCalculate /\ IsOk(last)) =>
          last.recommendations.optimal_price =
              estimates[Len(estimates)].optimal_price

\* an estimate of a product whose floor is above its cap carries the floor
C15_Witness ==
    /\ IsCalculate
    /\ IsOk(last)
    /\ Len(estimates) > 0
    /\ RGt(AdviceFloor(Len(estimates)), AdviceCap(Len(estimates)))
    /\ estimates[Len(estimates)].optimal_price = Round(AdviceFloor(Len(estimates)), 2)

NeedsEstimate == IsSimulate \/ IsOptimize \/ IsCurve

HasEstimate(product_id) ==
    \E i \in 1..Len(estimates) : estimates[i].product_id = product_id

MissingElasticityErrors ==
    {"No elasticity data available. Calculate elasticity first.",
     "Calculate elasticity first",
     "No elasticity data available"}

\* an error result holds the error and nothing computed
IsBareError(messages) ==
    /\ last.status = "error"
    /\ last.error \in messages
    /\ DOMAIN last = {"op", "args", "status", "error"}

\* C16: for a product without an estimate calculate_revenue_optimization,
\* get_elasticity_curve and simulate_scenario return a missing-elasticity
\* error and no computed result, whatever the candidate price; for a product
\* id without a product they return a product-not-found error.
C16_MissingEstimate ==
    NeedsEstimate =>
        /\ last.args[1] \notin DOMAIN products => IsBareError({"Product not found"})
        /\ (last.args[1] \in DOMAIN products /\ ~HasEstimate(last.args[1]))
              => IsBareError(MissingElasticityErrors)

\* a candidate 31% below the price of a product without an estimate, while
\* another product has one, was answered with the missing-elasticity error
C16_Witness ==
    /\ IsSimulate
    /\ last.args[1] = 2
    /\ last.args[2] = RMul(products[2].current_price, Frac(69, 100))
    /\ HasEstimate(1)
    /\ IsBareError(MissingElasticityErrors)

\* the operations of the simulator, the optimizer and the curve
SimulatorOps ==
    {"simulate_scenario", "simulate_competitive_response",
     "simulate_seasonal_scenario", "bulk_simulate", "compare_scenarios",
     "calculate_revenue_optimization", "get_elasticity_curve"}

\* C17: no operation of the simulator, the optimizer or the curve creates,
\* modifies or deletes an estimate, a product or a sale, whether it succeeds
\* or fails.
C17_Frame ==
    [][last'.op \in SimulatorOps =>
          /\ estimates' = estimates
          /\ products' = products
          /\ sales' = sales]_vars

\* a competitive response that succeeded and a scenario kept, with an
\* estimate in the table
C17_Witness ==
    /\ last.op = "simulate_competitive_response"
    /\ last.status = "ok"
    /\ estimates # <<>>
    /\ scenarios # <<>>

\* a stored scenario of an earlier call with the arguments and the
\* coefficient of the last one
SameCall(row) ==
    /\ row.product_id = last.args[1]
    /\ row.new_price = last.args[2]
    /\ row.simulation_days = last.args[3]
    /\ row.elasticity_used = last.coefficient

\* what simulate_scenario returns for the arguments of the last call, from
\* the estimates, products and sales as they are now
SimulateAgain ==
    {Tag("simulate_scenario", last.args,
         simulate_scenario(products, sales, last.args[1], er, last.args[2],
                           last.args[3])) :
        er \in LatestEstimateChoices(estimates, last.args[1])}

IsCompare == last.op = "compare_scenarios"

\* the ids of the scenarios the last comparison was made over
Compared == ScenariosFound(scenarios, last.args[1], 1)

\* pick is a compared scenario whose change is at least that of every
\* compared scenario
IsBestPick(pick, field) ==
    /\ pick # NoRow
    /\ \E k \in 1..Len(Compared) :
          pick = to_dict(Compared[k], scenarios[Compared[k]])
    /\ \A k \in 1..Len(Compared) :
          RGe(pick[field], scenarios[Compared[k]][field])

\* C19: compare_scenarios over a non-empty set of stored scenarios returns
\* three picks, each a compared scenario whose revenue change, profit change
\* or demand change is at least that of every compared scenario; over an
\* empty set it returns an error.
C19_BestPicks ==
    IsCompare =>
        IF Compared = <<>> THEN last.status = "error"
        ELSE /\ IsOk(last)
             /\ IsBestPick(last.best_for_revenue, "revenue_change_percent")
             /\ IsBestPick(last.best_for_profit, "profit_change_percent")
             /\ IsBestPick(last.best_for_volume, "demand_change_percent")

\* c has the sign of e and lies within 15% of e
Recovers(c, e) ==
    /\ Sign(c[1]) = Sign(e[1])
    /\ RLe(RAbs(RSub(c, e)), RMul(Frac(15, 100), RAbs(e)))

\* the last operation fitted product 1, whose history follows the law over
\* the design
FittedLaw(law, design) ==
    /\ IsCalculate
    /\ last.args[1] = 1
    /\ sales[1] = LawRows(law, design)

\* the number of different prices of a design
PricesOf(design) == Cardinality({k \in 1..3 : design[k] > 0})

\* C20 as stated: for a history of at least 200 rows that follows
\* quantity = A * price^e, the coefficient of the linear model has the sign
\* of e and lies within 15% of e.
C20_Original ==
    \A law \in Laws, design \in Designs :
        FittedLaw(law, design) =>
            IsOk(last) /\ Recovers(last.elasticity_coefficient, law[2])

\* C20: for a history of at least 200 rows at two or more different prices
\* that follows quantity = A * price^e with e # 0, the coefficient of the
\* linear model has the sign of e and lies within 15% of e.
C20_LinearRecovers ==
    \A law \in Laws, design \in Designs :
        FittedLaw(law, design) /\ PricesOf(design) >= 2 =>
            IsOk(last) /\ Recovers(last.elasticity_coefficient, law[2])

\* an elastic law recovered from 200 rows at three prices
C20_Witness ==
    /\ FittedLaw(<<9, Frac(-3, 2)>>, <<150, 49, 1>>)
    /\ IsOk(last)
    /\ last.rows_used = 200
    /\ last.elasticity_coefficient = Frac(-3, 2)

\* the estimate the step has appended to the store
NewEstimate == estimates'[Len(estimates')]

IsCompetitive == last.op = "simulate_competitive_response"

\* the simulation of the product of the last call at the given percent
\* change over the given horizon, with the estimate the call can see
PhaseAt(change, simulation_days) ==
    {simulate_scenario(products, sales, last.args[1], er,
         RMul(LastProduct.current_price, RAdd(R(1), RDiv(change, R(100)))),
         simulation_days) :
        er \in LatestEstimateChoices(estimates, last.args[1])}

\* our_change * (1 - match_percent / 100) of the last call
EffectiveChange ==
    RMul(R(last.args[2]), RSub(R(1), RDiv(R(last.match_percent), R(100))))

\* C22: simulate_competitive_response runs the simulation at the full price
\* change over delay_days, runs a second one at our_change * (1 -
\* match_percent / 100) over 30 days, and reports the sum of the two total
\* revenue changes and the sum of the two total profit changes.
C22_CompetitivePhases ==
    IsCompetitive /\ IsOk(last) =>
        /\ last.phase1 \in PhaseAt(R(last.args[2]),
                                 Get(last.args[3], "delay_days", 7))
        /\ last.phase2 \in PhaseAt(EffectiveChange, 30)
        /\ last.total_revenue_impact =
               RAdd(last.phase1.total_revenue_change,
                    last.phase2.total_revenue_change)
        /\ last.total_profit_impact =
               RAdd(last.phase1.total_profit_change,
                    last.phase2.total_profit_change)

\* a price cut of 10% half matched after 14 days
C22_Witness ==
    /\ IsCompetitive
    /\ IsOk(last)
    /\ last.args = <<1, -10, Response(14, 50)>>
    /\ last.phase1.new_price = R(90)
    /\ last.phase2.new_price = R(95)
    /\ last.phase1.simulation_days = 14

IsSeasonal == last.op = "simulate_seasonal_scenario"

\* the prices at which the last competitive response simulates
CompetitivePrices ==
    LET product == GetProduct(products, last.args[1])
    IN  IF product = NoRow THEN {}
        ELSE {<<PriceAfterChange(product.current_price, R(last.args[2])),
                Get(last.args[3], "delay_days", 7)>>,
              <<PriceAfterChange(product.current_price,
                    EffectivePriceChange(last.args[2],
                        Get(last.args[3], "match_percent", 100))), 30>>}

\* the single-scenario simulations the last competitive or seasonal
\* operation ran
UnderlyingSimulations ==
    {simulate_scenario(products, sales, last.args[1], er, call[1], call[2]) :
        er \in LatestEstimateChoices(estimates, last.args[1]),
        call \in (IF IsCompetitive THEN CompetitivePrices
                  ELSE {<<last.args[2], 30>>})}

\* the failures of simulate_scenario the claim names
SimulationFailures ==
    {"No elasticity data available. Calculate elasticity first.",
     "Price decrease exceeds 30% limit", "Price increase exceeds 20% limit",
     "Insufficient historical data"}

\* C23: when the underlying single-scenario simulation fails (no estimate,
\* price change out of bounds, fewer than 10 recent observations),
\* simulate_competitive_response and simulate_seasonal_scenario return that
\* failure as an error result; no exception is raised.
C23_FailureReturned ==
    (IsCompetitive \/ IsSeasonal) =>
        \A base \in UnderlyingSimulations :
            base.status = "error" /\ base.error \in SimulationFailures =>
                /\ last.status = "error"
                /\ \E b \in UnderlyingSimulations : last.error = b.error

\* the sales of the product of the last call in the given season
InSeason(season) ==
    LET rows == sales[last.args[1]]
    IN  [r \in {x \in DOMAIN rows : x.season = season} |-> rows[r]]

\* that season's historical mean quantity over the overall mean, 1.0 for a
\* season with no history
ExactSeasonFactor ==
    IF RowCount(InSeason(last.args[3])) = 0 THEN R(1)
    ELSE RDiv(Mean(InSeason(last.args[3]), "quantity"),
              Mean(sales[last.args[1]], "quantity"))

\* the fields of a simulation result the seasonal adjustment rewrites
AdjustedFields ==
    {"predicted_daily_quantity", "predicted_daily_revenue",
     "predicted_daily_profit"}

\* C24: the result of simulate_seasonal_scenario is the base 30-day
\* simulation result except that the predicted daily quantity is the base
\* one times the season factor and the predicted daily revenue and profit
\* are candidate_price * adjusted quantity and (candidate_price - unit_cost)
\* * adjusted quantity (rounded as returned); the percent changes, period
\* totals, confidence bounds and recommendation keep the base values.
C24_SeasonalAdjustment ==
    IsSeasonal /\ IsOk(last) =>
        \E base \in UnderlyingSimulations :
            /\ IsOk(base)
            /\ \A f \in DOMAIN base \ AdjustedFields : last[f] = base[f]
            /\ last.predicted_daily_quantity =
                   RMul(base.predicted_daily_quantity, ExactSeasonFactor)
            /\ last.predicted_daily_revenue =
                   Round(RMul(last.args[2], last.predicted_daily_quantity), 2)
            /\ last.predicted_daily_profit =
                   Round(RMul(RSub(last.args[2], LastProduct.unit_cost),
                              last.predicted_daily_quantity), 2)

\* a fall simulation: the season sells 4/7 of the overall mean
C24_Witness ==
    /\ IsSeasonal
    /\ IsOk(last)
    /\ last.args[3] = "Fall"
    /\ ExactSeasonFactor = Frac(4, 7)
    /\ last.predicted_daily_quantity # Round(ExactQuantity, 1)
    /\ last.total_predicted_volume = Round(RMul(ExactQuantity, R(30)), 0)

\* the optimal price of the last optimization before it is rounded
UnroundedOptimal ==
    OptimalPrice(LastProduct,
                 [elasticity_coefficient |-> last.elasticity_used], last.args[2])

\* C25 as stated: the optimal price calculate_revenue_optimization returns is
\* strictly greater than current_price.
C25_Original ==
    (IsOptimize /\ IsOk(last) /\ RGt(last.current_price, R(0))) =>
        RGt(last.optimal_price, last.current_price)

\* C25 amended: the optimal price before rounding is strictly greater than
\* current_price; the returned one, rounded to two decimals, is at least
\* current_price - 0.005, and strictly greater than current_price when the
\* increase before rounding is more than 0.005.
C25_NoPriceDecrease ==
    (IsOptimize /\ IsOk(last) /\ RGt(last.current_price, R(0))) =>
        /\ RGt(UnroundedOptimal, last.current_price)
        /\ last.optimal_price = Round(UnroundedOptimal, 2)
        /\ RGe(last.optimal_price, RSub(last.current_price, HalfCent))
        /\ RGt(RSub(UnroundedOptimal, last.current_price), HalfCent) =>
               RGt(last.optimal_price, last.current_price)

\* an elastic product whose optimal price is the cap, twice the price
C25_Witness ==
    /\ IsOptimize
    /\ IsOk(last)
    /\ RLt(last.elasticity_used, R(-1))
    /\ last.current_price = R(100)
    /\ last.optimal_price = R(200)

\* estimate i has an elastic coefficient and its product a positive cost
ElasticAdvice(i) ==
    /\ RLt(estimates[i].elasticity_coefficient, R(-1))
    /\ estimates[i].product_id \in DOMAIN products
    /\ RGt(products[estimates[i].product_id].unit_cost, R(0))

\* C26 as stated: for every coefficient < -1 and every product with
\* unit_cost > 0 the optimal_price of the recommendation attached to an
\* estimate equals exactly unit_cost * 1.1.
C26_Original ==
    \A i \in 1..Len(estimates) :
        ElasticAdvice(i) => estimates[i].optimal_price = AdviceFloor(i)

\* C26 amended: for every coefficient < -1 and every product with
\* unit_cost > 0 the optimal_price of the recommendation attached to an
\* estimate equals unit_cost * 1.1 rounded to two decimals, whatever the
\* coefficient and the current price.
C26_ElasticAdviceIsFloor ==
    /\ \A i \in 1..Len(estimates) :
          ElasticAdvice(i) => estimates[i].optimal_price = Round(AdviceFloor(i), 2)
    /\ (IsCalculate /\ IsOk(last) /\ RLt(last.elasticity_coefficient, R(-1))
            /\ RGt(products[last.args[1]].unit_cost, R(0))) =>
          last.recommendations.optimal_price =
              Round(RMul(products[last.args[1]].unit_cost, Frac(11, 10)), 2)

\* two elastic estimates of different magnitude with the same optimal price
C26_Witness ==
    /\ Len(estimates) = 2
    /\ ElasticAdvice(1)
    /\ ElasticAdvice(2)
    /\ estimates[1].elasticity_coefficient # estimates[2].elasticity_coefficient
    /\ estimates[1].product_id = estimates[2].product_id
    /\ estimates[1].optimal_price = estimates[2].optimal_price

\* the profit change of the last projection before rounding: the value
\* _generate_recommendation is called with
ExactProfitChange ==
    LET current_avg_profit ==
            Mean(RecentRows(SalesOf(sales, last.product_id)), "profit")
    IN  RMul(RDiv(RSub(ExactProfit, current_avg_profit), current_avg_profit),
             R(100))

\* C27: no accepted scenario whose profit change is strictly positive is
\* labelled Not Recommended.
C27_ProfitableNotRejected ==
    (IsSimulate /\ IsOk(last) /\ RGt(ExactProfitChange, R(0)))
        => last.recommendation # "Not Recommended"

\* C28: for every accepted scenario and every stored coefficient the
\* projected daily quantity simulate_scenario returns is non-negative.
C28_QuantityNonNegative ==
    (IsSimulate /\ IsOk(last)) => RGe(last.predicted_daily_quantity, R(0))

\* the last step read back, with compare_scenarios, the record of the scenario
\* the step before it simulated; entry k of the comparison is that record
ReadsBackAt(k) ==
    /\ IsSimulate /\ IsOk(last)
    /\ last'.op = "compare_scenarios" /\ IsOk(last')
    /\ k \in 1..Len(last'.scenarios)
    /\ last'.scenarios[k].id = Len(scenarios)

\* C29: the recommendation action simulate_scenario returns for a scenario is
\* the action the stored scenario record reports when compare_scenarios
\* reads it back.
C29_SameAdviceReadBack ==
    [][\A k \in 1..MaxScenarios :
          ReadsBackAt(k) => last'.scenarios[k].recommendation = last.recommendation]_vars

\* no two stored estimates carry the same calculation_date, so that the
\* latest-estimate query has one answer
DistinctDates ==
    \A i, j \in 1..Len(estimates) :
        i # j => estimates[i].calculation_date # estimates[j].calculation_date

\* C30: within one simulate_competitive_response call phase 1 and phase 2 are
\* projected with the same elasticity estimate, even when a concurrent
\* calculate_elasticity stores a new estimate between the two phases (with
\* estimates that differ in their calculation_date).
C30_OneEstimatePerCall ==
    (IsCompetitive /\ IsOk(last) /\ DistinctDates) =>
        /\ last.phase1.coefficient = last.phase2.coefficient
        /\ last.phase1.elasticity_type = last.phase2.elasticity_type

====
